---- MODULE Spec2Model ----
(***************************************************************************)
(* Model of the AI-suggestion pipeline of the monthly planner:             *)
(*   - SimpleCache          (packages/api/src/cache/simple-cache.ts)       *)
(*   - SimpleRateLimiter    (packages/api/src/rate-limiting/...)           *)
(*   - SimpleRetry          (packages/api/src/error-handling/...)          *)
(*   - AIService            (packages/api/src/ai-service.ts)               *)
(*   - SuggestionApplicator (suggestion-applicator, unnamed/part_008)      *)
(*   - the apply handlers of aiRouter (packages/api/src/routers/ai.ts)     *)
(* Each component has its own specification (SpecCache, SpecLimiter, ...)  *)
(* over the shared variables; a specification leaves the variables of the  *)
(* components it does not run at their initial values. SpecGen runs the    *)
(* service on top of the cache, the limiter and the retry loop.            *)
(***************************************************************************)
EXTENDS Integers, Sequences, FiniteSets, TLC

VARIABLES
  now,        \* Date.now(), in the time unit of the specification
  cache,      \* SimpleCache.cache: key -> CacheEntry, NoEntry when absent
  lastSet,    \* history: per key, the last set() not undone by delete()/clear()
  lastGet,    \* history: the last get() with what it returned
  userLimits,   \* SimpleRateLimiter.userLimits: user -> UserRateLimit, NoLimits when unset
  dailyUsage,   \* SimpleRateLimiter.dailyUsage: user -> endpoint -> count (0 when unset)
  monthlyUsage, \* SimpleRateLimiter.monthlyUsage: user -> count (0 when unset)
  lastCheck,    \* the RateLimitStatus checkLimit just returned; NoCheck after any other step
  retry,        \* one SimpleRetry.execute call: its locals, position and RetryResult
  store,        \* the goals, tasks and calendarEvents tables
  suggestions,  \* the ai_suggestions table: id -> row
  applyReq,     \* the apply / batch-apply / preview request handlers: handler -> locals
  gen,          \* one AIService.generate* call: its arguments, position and outcome
  lastModel,    \* history: the last returned call that set the cache from a model response
  nGenerate,    \* the number of generate* calls begun
  route,        \* one generatePlan / generateBriefing / generateReschedule request handler
  createdSuggestions, \* the ai_suggestions rows the generation handlers inserted, oldest first
  parked,       \* a second generate* call, suspended at an await while `gen` runs
  transform,    \* one run of the parse-and-transform step of generatePlan
  fallbackRun,  \* the FallbackHandler.generatePlanFallback invocations: argument and results
  keyRun,       \* the SimpleCache.generateKey invocations: arguments and keys
  lifeDay,      \* the clock of the suggestion-management requests, in days
  lifecycle,    \* the response of the last archive / restore / duplicate / cleanup request
  rollover,     \* the wall clock and the two reset timers of simple-limiter.ts
  parallel      \* the executeParallel call in progress: one retry loop per operation

cacheVars == <<now, cache, lastSet, lastGet>>
limiterVars == <<userLimits, dailyUsage, monthlyUsage, lastCheck>>
retryVars == <<retry>>
applyVars == <<store, suggestions, applyReq>>

genVars == <<gen, lastModel, nGenerate>>
routeVars == <<route, createdSuggestions>>
raceVars == <<parked>>
pureVars == <<transform, fallbackRun, keyRun>>
lifeVars == <<lifeDay, lifecycle>>
timerVars == <<rollover>>
parallelVars == <<parallel>>

notCacheVars == <<limiterVars, retryVars, applyVars, genVars, routeVars, raceVars, pureVars, timerVars, parallelVars, lifeVars>>
notLimiterVars == <<cacheVars, retryVars, applyVars, genVars, routeVars, raceVars, pureVars, timerVars, parallelVars, lifeVars>>
notRetryVars == <<cacheVars, limiterVars, applyVars, genVars, routeVars, raceVars, pureVars, timerVars, parallelVars, lifeVars>>
notParallelVars == <<cacheVars, limiterVars, retryVars, applyVars, genVars, routeVars, raceVars, pureVars, timerVars, lifeVars>>
notApplyVars == <<cacheVars, limiterVars, retryVars, genVars, routeVars, raceVars, pureVars, timerVars, parallelVars, lifeVars>>

None == "none"

(***************************************************************************)
(* Bounds of the model                                                     *)
(***************************************************************************)
MaxNow == 3          \* the cache clock runs 0..MaxNow
MaxTtl == 2          \* ttlMs arguments of set() are 1..MaxTtl
MaxUsage == 5        \* recordUsage is modelled while fewer than MaxUsage usages are counted
MaxParallel == 2     \* executeParallel() gets 0..MaxParallel operations
MaxAttemptsArg == 4  \* maxAttempts arguments of execute() are 0..MaxAttemptsArg
MaxGenerate == 2     \* generate* calls begun in one behaviour
MaxGenTicks == 2     \* the clock of the generation calls runs 0..MaxGenTicks * TickMs
DaysInMonth == 30    \* the months of the wall clock have this many days
MaxLifeDay == 2      \* the clock of the suggestion-management requests runs 1..MaxLifeDay
MaxParams == 2       \* the parameter objects given to generateKey have at most this many properties
MaxTextLen == 3      \* userGoals texts over the small alphabet have at most this many characters
MaxDay == 1          \* new Date() falls on day 0..MaxDay
MaxStoreWrites == 2  \* requests are received while the store has executed fewer statements

(***************************************************************************)
(* SimpleCache                                                             *)
(***************************************************************************)
CacheKeys == {"k1", "k2"}
CacheValues == {"v1", "v2"}
NoEntry == [data |-> None, timestamp |-> -1, ttl |-> -1]

\* simple-cache.ts:34 and :91 -- the expiry test of get() and cleanup()
IsExpiredAtOrAfter(entry, t) == t - entry.timestamp >= entry.ttl
IsExpired(entry, t) == t - entry.timestamp > entry.ttl

\* the value get(key) returns at time t: null for a missing or expired entry
CacheLookupMisses(c, key, t) == None
CacheLookup(c, key, t) ==
  IF c[key] = NoEntry THEN None
  ELSE IF IsExpired(c[key], t) THEN None
  ELSE c[key].data

\* the map after get(key) at time t: an expired entry is deleted lazily
CacheAfterGet(c, key, t) ==
  IF c[key] # NoEntry /\ IsExpired(c[key], t)
  THEN [c EXCEPT ![key] = NoEntry]
  ELSE c

\* the map after set(key, data, ttlMs) at time t
CacheAfterSet(c, key, data, ttlMs, t) ==
  [c EXCEPT ![key] = [data |-> data, timestamp |-> t, ttl |-> ttlMs]]

\* the keys cleanup() removes at time t
ExpiredKeys(c, t) == {k \in DOMAIN c : c[k] # NoEntry /\ IsExpired(c[k], t)}

CacheAfterCleanup(c, t) ==
  [k \in DOMAIN c |-> IF k \in ExpiredKeys(c, t) THEN NoEntry ELSE c[k]]

NoGet == [key |-> None, result |-> None, at |-> -1, set |-> NoEntry]

CacheGet(key) ==
  /\ lastGet' = [key |-> key, result |-> CacheLookup(cache, key, now),
                 at |-> now, set |-> lastSet[key]]
  /\ cache' = CacheAfterGet(cache, key, now)
  /\ UNCHANGED <<now, lastSet>>

CacheSet(key, data, ttlMs) ==
  /\ cache' = CacheAfterSet(cache, key, data, ttlMs, now)
  /\ lastSet' = [lastSet EXCEPT ![key] =
                   [data |-> data, timestamp |-> now, ttl |-> ttlMs]]
  /\ UNCHANGED <<now, lastGet>>

CacheDelete(key) ==
  /\ cache' = [cache EXCEPT ![key] = NoEntry]
  /\ lastSet' = [lastSet EXCEPT ![key] = NoEntry]
  /\ UNCHANGED <<now, lastGet>>

CacheClear ==
  /\ cache' = [k \in CacheKeys |-> NoEntry]
  /\ lastSet' = [k \in CacheKeys |-> NoEntry]
  /\ UNCHANGED <<now, lastGet>>

\* the 5-minute setInterval tick, and any other caller of cleanup()
CacheCleanup ==
  /\ ExpiredKeys(cache, now) # {}
  /\ cache' = CacheAfterCleanup(cache, now)
  /\ UNCHANGED <<now, lastSet, lastGet>>

\* wall-clock time passes
CacheTick ==
  /\ now < MaxNow
  /\ now' = now + 1
  /\ UNCHANGED <<cache, lastSet, lastGet>>

InitCacheVars ==
  /\ now = 0
  /\ cache = [k \in CacheKeys |-> NoEntry]
  /\ lastSet = [k \in CacheKeys |-> NoEntry]
  /\ lastGet = NoGet


(***************************************************************************)
(* SimpleRateLimiter                                                       *)
(***************************************************************************)
Users == {"u1", "u2"}
Kinds == {"plan", "briefing", "reschedule"}
LimitFields == {"daily", "monthly"} \cup Kinds

\* simple-limiter.ts:182-188
DEFAULT_RATE_LIMITS ==
  [daily |-> 20, monthly |-> 300, plan |-> 5, briefing |-> 10, reschedule |-> 5]

\* the Partial<UserRateLimit> arguments of setUserLimits that are modelled
LimitOverrides ==
  { [f \in {"daily", "monthly"} |-> IF f = "daily" THEN 2 ELSE 3] }

RECURSIVE SumOver(_, _)
SumOver(f, S) ==
  IF S = {} THEN 0
  ELSE LET x == CHOOSE y \in S : TRUE IN f[x] + SumOver(f, S \ {x})

Min2(a, b) == IF a <= b THEN a ELSE b
Max2(a, b) == IF a >= b THEN a ELSE b

\* this.userLimits.get(userId) || this.defaultLimits
NoLimits == [f \in LimitFields |-> -1]
LimitsOf(ul, userId) == IF ul[userId] = NoLimits THEN DEFAULT_RATE_LIMITS ELSE ul[userId]

\* Array.from(dailyUsage.values()).reduce(sum)
TotalDailyUsage(du, userId) == SumOver(du[userId], Kinds)

\* the `allowed` of checkLimit (simple-limiter.ts:62-71)
AllowedIgnoringEndpoint(limits, totalDaily, monthly, endpointUsage, endpointLimit) ==
  /\ ~(totalDaily >= limits.daily)
  /\ ~(monthly >= limits.monthly)
AllowedOffByOne(limits, totalDaily, monthly, endpointUsage, endpointLimit) ==
  /\ ~(totalDaily > limits.daily)
  /\ ~(monthly > limits.monthly)
  /\ ~(endpointUsage > endpointLimit)
Allowed(limits, totalDaily, monthly, endpointUsage, endpointLimit) ==
  /\ ~(totalDaily >= limits.daily)
  /\ ~(monthly >= limits.monthly)
  /\ ~(endpointUsage >= endpointLimit)

\* the RateLimitStatus checkLimit(userId, endpoint) returns
CheckLimitStatus(ul, du, mu, userId, endpoint) ==
  LET limits == LimitsOf(ul, userId)
      monthly == mu[userId]
      endpointLimit == limits[endpoint]
      endpointUsage == du[userId][endpoint]
      totalDaily == TotalDailyUsage(du, userId)
      dailyLimitExceeded == totalDaily >= limits.daily
      remaining == Min2(limits.daily - totalDaily,
                        Min2(limits.monthly - monthly, endpointLimit - endpointUsage))
  IN [ user |-> userId,
       endpoint |-> endpoint,
       allowed |-> Allowed(limits, totalDaily, monthly, endpointUsage, endpointLimit),
       remaining |-> Max2(0, remaining),
       resetTime |-> IF dailyLimitExceeded THEN "nextMidnight" ELSE "firstOfNextMonth",
       limit |-> endpointLimit,
       currentUsage |-> endpointUsage ]

NoCheck == [user |-> None]

\* checkLimit also stores the limits it used as the user's limits
CheckLimit(userId, endpoint) ==
  /\ lastCheck' = CheckLimitStatus(userLimits, dailyUsage, monthlyUsage, userId, endpoint)
  /\ userLimits' = [userLimits EXCEPT ![userId] = LimitsOf(userLimits, userId)]
  /\ UNCHANGED <<dailyUsage, monthlyUsage>>

UsageAfterRecordCoalesced(du, userId, endpoint) ==
  [du EXCEPT ![userId][endpoint] = Max2(@, 1)]
UsageAfterRecord(du, userId, endpoint) ==
  [du EXCEPT ![userId][endpoint] = @ + 1]

RecordUsage(userId, endpoint) ==
  /\ SumOver([u \in Users |-> TotalDailyUsage(dailyUsage, u)], Users) < MaxUsage
  /\ SumOver(monthlyUsage, Users) < MaxUsage
  /\ dailyUsage' = UsageAfterRecord(dailyUsage, userId, endpoint)
  /\ monthlyUsage' = [monthlyUsage EXCEPT ![userId] = @ + 1]
  /\ lastCheck' = NoCheck
  /\ UNCHANGED userLimits

\* the midnight timer: this.dailyUsage.clear()
ResetDailyUsage ==
  /\ dailyUsage' = [u \in Users |-> [k \in Kinds |-> 0]]
  /\ lastCheck' = NoCheck
  /\ UNCHANGED <<userLimits, monthlyUsage>>

\* the first-of-month timer: this.monthlyUsage.clear()
ResetMonthlyUsage ==
  /\ monthlyUsage' = [u \in Users |-> 0]
  /\ lastCheck' = NoCheck
  /\ UNCHANGED <<userLimits, dailyUsage>>

MergeLimits(current, partial) ==
  [f \in LimitFields |-> IF f \in DOMAIN partial THEN partial[f] ELSE current[f]]

SetUserLimits(userId, partial) ==
  /\ userLimits' = [userLimits EXCEPT ![userId] = MergeLimits(LimitsOf(userLimits, userId), partial)]
  /\ lastCheck' = NoCheck
  /\ UNCHANGED <<dailyUsage, monthlyUsage>>

InitLimiterVars ==
  /\ userLimits = [u \in Users |-> NoLimits]
  /\ dailyUsage = [u \in Users |-> [k \in Kinds |-> 0]]
  /\ monthlyUsage = [u \in Users |-> 0]
  /\ lastCheck = NoCheck


(***************************************************************************)
(* scheduleDailyReset / scheduleMonthlyReset                               *)
(* The wall clock counts the days of a month from 0 (the 1st); a timer is  *)
(* the number of midnights until it is due, 0 when it is due now. A delay  *)
(* above the 32-bit limit of setTimeout is replaced by 1 ms: such a timer  *)
(* is written OneMs and is due within the day it was set.                  *)
(***************************************************************************)
HourMs == 60 * 60 * 1000
DayHours == 24
TIMEOUT_MAX == 2147483647
OneMs == -1

\* setTimeout(callback, ms) for a delay of whole days: ms exceeds TIMEOUT_MAX
\* iff the hours exceed TIMEOUT_MAX in whole hours
SetTimeout(days) ==
  IF days * DayHours > TIMEOUT_MAX \div HourMs THEN OneMs ELSE days

\* scheduleDailyReset: tomorrow 00:00 minus now
MsUntilMidnight == 1

\* scheduleMonthlyReset: the 1st of the next month, 00:00, minus now
MsUntilFirst(dayOfMonth) == DaysInMonth - dayOfMonth

TimerDue(timer) == timer = 0 \/ timer = OneMs

\* the callback of the daily timer: resetDailyUsage(); scheduleDailyReset()
DailyTimerFires ==
  /\ TimerDue(rollover.daily)
  /\ ResetDailyUsage
  /\ rollover' = [rollover EXCEPT !.daily = SetTimeout(MsUntilMidnight),
                                  !.dailyFirings = 1 - @,
                                  !.dailyAtBoundary = TRUE]

\* the callback of the monthly timer: resetMonthlyUsage(); scheduleMonthlyReset()
MonthlyTimerFires ==
  /\ TimerDue(rollover.monthly)
  /\ ResetMonthlyUsage
  /\ rollover' = [rollover EXCEPT !.monthly = SetTimeout(MsUntilFirst(rollover.day)),
                                  !.monthlyFirings = 1 - @,
                                  !.monthlyAtBoundary = (rollover.monthly = 0)]

\* the clock reaches the next midnight; the timers that are due at a midnight
\* run before any later one is reached
Midnight ==
  /\ rollover.daily # 0
  /\ rollover.monthly # 0
  /\ rollover' = [rollover EXCEPT
       !.day = (@ + 1) % DaysInMonth,
       !.daily = IF @ = OneMs THEN OneMs ELSE @ - 1,
       !.monthly = IF @ = OneMs THEN OneMs ELSE @ - 1,
       !.dailyAtBoundary = FALSE,
       !.monthlyAtBoundary = FALSE]
  /\ UNCHANGED limiterVars

\* the module is loaded at 00:00 on the 1st: both schedule functions run once
InitTimerVars ==
  rollover = [ day |-> 0,
               daily |-> SetTimeout(MsUntilMidnight),
               monthly |-> SetTimeout(MsUntilFirst(0)),
               dailyFirings |-> 0, monthlyFirings |-> 0,
               dailyAtBoundary |-> FALSE, monthlyAtBoundary |-> FALSE ]


(***************************************************************************)
(* SimpleRetry                                                             *)
(***************************************************************************)
\* simple-retry.ts:22-27
DEFAULT_OPTIONS ==
  [maxAttempts |-> 3, baseDelay |-> 1000, maxDelay |-> 10000, backoffFactor |-> 2]

RetryFields == {"maxAttempts", "baseDelay", "maxDelay", "backoffFactor"}

\* { ...a, ...b } on option objects
Spread(a, b) ==
  [f \in RetryFields |-> IF f \in DOMAIN b THEN b[f] ELSE a[f]]

EmptyOptions == [f \in {} |-> 0]

\* getStrategyOptions(errorType, baseOptions) for the strategies with an
\* integer backoffFactor ("network" multiplies by 1.5)
GetStrategyOptions(errorType, baseOptions) ==
  CASE errorType = "rate-limit" ->
         [f \in DOMAIN baseOptions \cup {"maxAttempts", "baseDelay", "backoffFactor"} |->
            CASE f = "maxAttempts" -> 2
              [] f = "baseDelay" -> 5000
              [] f = "backoffFactor" -> 2
              [] OTHER -> baseOptions[f]]
    [] errorType = "ai-service" ->
         [f \in DOMAIN baseOptions \cup {"maxAttempts", "baseDelay", "backoffFactor"} |->
            CASE f = "maxAttempts" -> 3
              [] f = "baseDelay" -> 2000
              [] f = "backoffFactor" -> 2
              [] OTHER -> baseOptions[f]]
    [] OTHER -> baseOptions

\* Error messages are sequences of words; toLowerCase() acts word by word and
\* includes() is the contiguous-subsequence test.
ToLowerCase(msg) ==
  [i \in 1..Len(msg) |->
     CASE msg[i] = "Invalid" -> "invalid"
       [] msg[i] = "API" -> "api"
       [] msg[i] = "Key" -> "key"
       [] msg[i] = "Unauthorized" -> "unauthorized"
       [] msg[i] = "No" -> "no"
       [] msg[i] = "AI" -> "ai"
       [] OTHER -> msg[i]]

Includes(msg, part) ==
  \E i \in 0..(Len(msg) - Len(part)) :
    \A j \in 1..Len(part) : msg[i + j] = part[j]

\* simple-retry.ts:102-108
noRetryMessages ==
  { <<"invalid", "api", "key">>,
    <<"insufficient", "credits">>,
    <<"invalid", "request", "format">>,
    <<"authentication", "failed">>,
    <<"unauthorized">> }

ShouldNotRetryNever(message) == FALSE
ShouldNotRetry(message) ==
  \E noRetryMsg \in noRetryMessages : Includes(ToLowerCase(message), noRetryMsg)

\* the messages the modelled operation throws
ErrorMessages ==
  { <<"401", "Invalid", "API", "Key", "provided">>,
    <<"Unauthorized">>,
    <<"request", "timeout">>,
    <<"No", "response", "from", "AI", "model">> }

RECURSIVE Pow(_, _)
Pow(b, e) == IF e = 0 THEN 1 ELSE b * Pow(b, e - 1)

\* simple-retry.ts:63-66 -- the delay taken after failed attempt `attempt`
DelayUncapped(opts, attempt) == opts.baseDelay * Pow(opts.backoffFactor, attempt - 1)
DelayNextExponent(opts, attempt) ==
  Min2(opts.baseDelay * Pow(opts.backoffFactor, attempt), opts.maxDelay)
Delay(opts, attempt) ==
  Min2(opts.baseDelay * Pow(opts.backoffFactor, attempt - 1), opts.maxDelay)

NoError == <<>>
NoResult == [success |-> FALSE, data |-> None, error |-> NoError,
             attempts |-> -1, totalDelay |-> -1]

\* the state of execute(fn, options) when the loop is entered
\* (pc: "call" = about to await fn(), "sleep" = awaiting delay(), "done")
RetryStart(options) ==
  LET opts == Spread(DEFAULT_OPTIONS, options) IN
  [ pc |-> IF 1 <= opts.maxAttempts THEN "call" ELSE "done",
    opts |-> opts,
    attempt |-> 1,
    lastError |-> NoError,
    totalDelay |-> 0,
    result |-> IF 1 <= opts.maxAttempts THEN NoResult
               ELSE [success |-> FALSE, data |-> None, error |-> NoError,
                     attempts |-> opts.maxAttempts, totalDelay |-> 0],
    invocations |-> 0,        \* history: the number of times fn was called
    thrown |-> <<>>,          \* history: the messages fn threw, in order
    sleeps |-> <<>> ]         \* history: the delays slept, in order

\* the attempts field of the failure result (simple-retry.ts:78-83)
FailureAttempts(rt) == rt.opts.maxAttempts

RetryFailure(rt, error, totalDelay) ==
  [success |-> FALSE, data |-> None, error |-> error,
   attempts |-> FailureAttempts(rt), totalDelay |-> totalDelay]

\* fn() resolved with `data` (simple-retry.ts:42-48)
RetryAfterSuccess(rt, data) ==
  [rt EXCEPT !.pc = "done",
             !.invocations = @ + 1,
             !.result = [success |-> TRUE, data |-> data, error |-> NoError,
                         attempts |-> rt.attempt, totalDelay |-> rt.totalDelay]]

\* fn() threw an error with `message` (simple-retry.ts:49-75)
RetryAfterError(rt, message) ==
  LET called == [rt EXCEPT !.invocations = @ + 1,
                           !.lastError = message,
                           !.thrown = Append(@, message)]
      delay == Delay(rt.opts, rt.attempt)
  IN IF ShouldNotRetry(message) \/ rt.attempt = rt.opts.maxAttempts
     THEN [called EXCEPT !.pc = "done",
                         !.result = RetryFailure(rt, message, rt.totalDelay)]
     ELSE [called EXCEPT !.pc = "sleep",
                         !.totalDelay = @ + delay,
                         !.sleeps = Append(@, delay)]

\* delay() resolved: the next iteration of the loop (attempt++)
RetryAfterSleep(rt) ==
  IF rt.attempt + 1 <= rt.opts.maxAttempts
  THEN [rt EXCEPT !.pc = "call", !.attempt = @ + 1]
  ELSE [rt EXCEPT !.pc = "done", !.attempt = @ + 1,
                  !.result = RetryFailure(rt, rt.lastError, rt.totalDelay)]

RetryIdle == [pc |-> "idle"]

\* the options arguments of execute() that are modelled
RetryOptionArgs ==
  {EmptyOptions}
    \cup {[f \in {"maxAttempts"} |-> n] : n \in 0..MaxAttemptsArg}
    \cup {[f \in {"maxAttempts", "baseDelay", "maxDelay", "backoffFactor"} |->
             CASE f = "maxAttempts" -> MaxAttemptsArg
               [] f = "baseDelay" -> 1000
               [] f = "maxDelay" -> 2500
               [] f = "backoffFactor" -> 3]}

Execute(options) ==
  /\ retry.pc \in {"idle", "done"}
  /\ retry' = RetryStart(options)

ExecuteWithStrategy(errorType, options) ==
  /\ retry.pc \in {"idle", "done"}
  /\ retry' = RetryStart(GetStrategyOptions(errorType, options))

FnResolves(data) ==
  /\ retry.pc = "call"
  /\ retry' = RetryAfterSuccess(retry, data)

FnThrows(message) ==
  /\ retry.pc = "call"
  /\ retry' = RetryAfterError(retry, message)

DelayElapses ==
  /\ retry.pc = "sleep"
  /\ retry' = RetryAfterSleep(retry)

InitRetryVars == retry = RetryIdle

(***************************************************************************)
(* SimpleRetry.executeParallel                                             *)
(* functions.map(fn => execute(fn, options)) starts one retry loop per     *)
(* operation; the loops advance in any interleaving. Promise.all settles   *)
(* when every loop has returned.                                           *)
(***************************************************************************)
ParallelIdle == [pc |-> "idle", loops |-> <<>>, results |-> <<>>]

\* the messages the operations throw: one that stops the loop, one that does not
OperationErrors == { <<"Unauthorized">>, <<"request", "timeout">> }

ParallelOptionArgs ==
  {EmptyOptions} \cup {[f \in {"maxAttempts"} |-> n] : n \in 0..2}

\* Promise.all(promises) when every promise has fulfilled: the values in the
\* order of the promises
PromiseAllFulfilledOnly(loops) ==
  LET all == [i \in 1..Len(loops) |-> loops[i].result]
  IN IF \E i \in 1..Len(all) : ~all[i].success THEN <<>> ELSE all
PromiseAll(loops) == [i \in 1..Len(loops) |-> loops[i].result]

\* executeParallel(functions, options) with n operations
ExecuteParallel(n, options) ==
  /\ parallel.pc \in {"idle", "done"}
  /\ parallel' = [pc |-> "running",
                  loops |-> [i \in 1..n |-> RetryStart(options)],
                  results |-> <<>>]

\* operation i resolves
OperationResolves(i, data) ==
  /\ parallel.pc = "running"
  /\ i \in 1..Len(parallel.loops)
  /\ parallel.loops[i].pc = "call"
  /\ parallel' = [parallel EXCEPT !.loops[i] = RetryAfterSuccess(@, data)]

\* operation i throws
OperationThrows(i, message) ==
  /\ parallel.pc = "running"
  /\ i \in 1..Len(parallel.loops)
  /\ parallel.loops[i].pc = "call"
  /\ parallel' = [parallel EXCEPT !.loops[i] = RetryAfterError(@, message)]

\* the backoff delay of loop i elapses
OperationDelayElapses(i) ==
  /\ parallel.pc = "running"
  /\ i \in 1..Len(parallel.loops)
  /\ parallel.loops[i].pc = "sleep"
  /\ parallel' = [parallel EXCEPT !.loops[i] = RetryAfterSleep(@)]

\* every execute() promise has fulfilled: executeParallel returns
PromiseAllSettles ==
  /\ parallel.pc = "running"
  /\ \A i \in 1..Len(parallel.loops) : parallel.loops[i].pc = "done"
  /\ parallel' = [parallel EXCEPT !.pc = "done", !.results = PromiseAll(parallel.loops)]

InitParallelVars == parallel = ParallelIdle


(***************************************************************************)
(* SuggestionApplicator (suggestion-applicator)                            *)
(* Identifiers, titles and dates are strings; "" is the empty (falsy)      *)
(* string. A store operation fails when its site is in `fail`, the set of  *)
(* failing sites chosen for the call. store.writes counts the insert and   *)
(* update statements the store has executed.                               *)
(***************************************************************************)
Undefined == -1

NewResult(message, hasGoals, hasTasks, hasEvents) ==
  [ success |-> TRUE, message |-> message,
    appliedItems |-> <<>>, skippedItems |-> <<>>, errors |-> <<>>,
    createdGoals |-> IF hasGoals THEN 0 ELSE Undefined,
    createdTasks |-> IF hasGoals THEN 0 ELSE Undefined,
    updatedTasks |-> IF hasTasks THEN 0 ELSE Undefined,
    updatedEvents |-> IF hasEvents THEN 0 ELSE Undefined ]

SeqIncludes(q, x) == \E i \in 1..Len(q) : q[i] = x

\* !options.applyAll && options.selectedItems && !options.selectedItems.includes(x)
Excluded(options, x) ==
  /\ ~options.applyAll
  /\ options.hasSelected
  /\ x \notin options.selectedItems

\* db.insert(goals).values({...}): the new row's id is its position
InsertGoal(st, userId, title) ==
  [st EXCEPT !.goals = Append(@, [userId |-> userId, title |-> title, progress |-> 0]),
             !.writes = @ + 1]

InsertTask(st, userId, goalId, task) ==
  [st EXCEPT !.tasks = Append(@, [id |-> "new", userId |-> userId, goalId |-> goalId,
                                   title |-> task.title, priority |-> task.priority,
                                   dueDate |-> IF task.dueDate # "" THEN task.dueDate ELSE "null"]),
             !.writes = @ + 1]

\* db.update(tasks).set({priority}).where(eq(tasks.id, id))
UpdateTaskPriority(st, id, priority) ==
  [st EXCEPT !.tasks = [i \in 1..Len(@) |->
     IF @[i].id = id THEN [@[i] EXCEPT !.priority = priority] ELSE @[i]],
             !.writes = @ + 1]

\* db.update(tasks).set({dueDate}).where(eq(tasks.id, id))
UpdateTaskDueDate(st, id, suggested) ==
  [st EXCEPT !.tasks = [i \in 1..Len(@) |->
     IF @[i].id = id
     THEN [@[i] EXCEPT !.dueDate = IF suggested # "" THEN suggested ELSE "null"]
     ELSE @[i]],
             !.writes = @ + 1]

\* db.update(calendarEvents).set({startTime, endTime}): undefined leaves a column
UpdateEventTimes(st, id, start, end) ==
  [st EXCEPT !.events = [i \in 1..Len(@) |->
     IF @[i].id = id
     THEN [@[i] EXCEPT !.startTime = IF start # "" THEN start ELSE @,
                       !.endTime = IF end # "" THEN end ELSE @]
     ELSE @[i]],
             !.writes = @ + 1]

\* goalQueries.updateProgress(goalId): no task of the model is ever completed
UpdateProgress(st, goalId) ==
  IF \E i \in 1..Len(st.tasks) : st.tasks[i].goalId = goalId
  THEN [st EXCEPT !.goals[goalId].progress = 0, !.writes = @ + 1]
  ELSE st

\* the tasks of one goal, from task j on (part_008:118-132); acc = [st, res, threw]
RECURSIVE PlanTasks(_, _, _, _, _, _, _)
PlanTasks(acc, userId, goalId, tasks, g, j, fail) ==
  IF j > Len(tasks) THEN acc
  ELSE IF <<"task", g, j>> \in fail THEN [acc EXCEPT !.threw = TRUE]
  ELSE PlanTasks([acc EXCEPT !.st = InsertTask(@, userId, goalId, tasks[j]),
                             !.res.createdTasks = @ + 1],
                 userId, goalId, tasks, g, j + 1, fail)

\* one iteration of the goal loop whose exclusion test passed, with the goal
\* insert succeeding or not (part_008:100-137)
PlanGoalNoSkipRecord(acc, userId, goalData, g, fail) ==
  IF <<"goal", g>> \in fail
  THEN [st |-> acc.st,
        res |-> [acc.res EXCEPT
                   !.errors = Append(@, <<"Failed to create goal", goalData.title>>)]]
  ELSE LET inserted == [st |-> InsertGoal(acc.st, userId, goalData.title),
                        res |-> [acc.res EXCEPT !.createdGoals = @ + 1,
                                                !.appliedItems = Append(@, goalData.title)],
                        threw |-> FALSE]
           after == PlanTasks(inserted, userId, Len(inserted.st.goals),
                              goalData.tasks, g, 1, fail)
       IN [st |-> after.st, res |-> after.res]
PlanGoalTasksFirst(acc, userId, goalData, g, fail) ==
  LET first == PlanTasks([st |-> acc.st, res |-> acc.res, threw |-> FALSE], userId,
                         Len(acc.st.goals), goalData.tasks, g, 1, fail)
  IN [st |-> InsertGoal(first.st, userId, goalData.title),
      res |-> [first.res EXCEPT !.createdGoals = @ + 1,
                                !.appliedItems = Append(@, goalData.title)]]
PlanGoal(acc, userId, goalData, g, fail) ==
  IF <<"goal", g>> \in fail
  THEN [st |-> acc.st,
        res |-> [acc.res EXCEPT
                   !.errors = Append(@, <<"Failed to create goal", goalData.title>>),
                   !.skippedItems = Append(@, goalData.title)]]
  ELSE LET inserted == [st |-> InsertGoal(acc.st, userId, goalData.title),
                        res |-> [acc.res EXCEPT !.createdGoals = @ + 1,
                                                !.appliedItems = Append(@, goalData.title)],
                        threw |-> FALSE]
           after == PlanTasks(inserted, userId, Len(inserted.st.goals),
                              goalData.tasks, g, 1, fail)
       IN IF after.threw
          THEN [st |-> after.st,
                res |-> [after.res EXCEPT
                           !.errors = Append(@, <<"Failed to create goal", goalData.title>>),
                           !.skippedItems = Append(@, goalData.title)]]
          ELSE [st |-> after.st, res |-> after.res]

\* the goal loop from goal g on (part_008:88-138); acc = [st, res]
RECURSIVE PlanGoals(_, _, _, _, _, _)
PlanGoals(acc, userId, goalList, options, g, fail) ==
  IF g > Len(goalList) THEN acc
  ELSE IF Excluded(options, goalList[g].title)
  THEN PlanGoals([acc EXCEPT !.res.skippedItems = Append(@, goalList[g].title)],
                 userId, goalList, options, g + 1, fail)
  ELSE PlanGoals(PlanGoal(acc, userId, goalList[g], g, fail),
                 userId, goalList, options, g + 1, fail)

\* createdGoals.find((g) => g.title === title) among the user's goals; 0 if none
MatchingGoal(st, userId, title) ==
  IF \E i \in 1..Len(st.goals) : st.goals[i].userId = userId /\ st.goals[i].title = title
  THEN CHOOSE i \in 1..Len(st.goals) :
         /\ st.goals[i].userId = userId /\ st.goals[i].title = title
         /\ \A k \in 1..(i - 1) : ~(st.goals[k].userId = userId /\ st.goals[k].title = title)
  ELSE 0

\* the progress loop from goal g on (part_008:141-160): its errors are swallowed
RECURSIVE PlanProgress(_, _, _, _, _, _)
PlanProgress(st, userId, goalList, appliedItems, g, fail) ==
  IF g > Len(goalList) THEN st
  ELSE IF SeqIncludes(appliedItems, goalList[g].title)
          /\ <<"progress", g>> \notin fail
          /\ MatchingGoal(st, userId, goalList[g].title) # 0
  THEN PlanProgress(UpdateProgress(st, MatchingGoal(st, userId, goalList[g].title)),
                    userId, goalList, appliedItems, g + 1, fail)
  ELSE PlanProgress(st, userId, goalList, appliedItems, g + 1, fail)

\* if (result.errors.length > 0) { success = false; message = ... }
FinaliseKeepsSuccess(res, message) ==
  IF Len(res.errors) > 0
  THEN [res EXCEPT !.message = <<message, Len(res.errors), "errors">>]
  ELSE res
Finalise(res, message) ==
  IF Len(res.errors) > 0
  THEN [res EXCEPT !.success = FALSE, !.message = <<message, Len(res.errors), "errors">>]
  ELSE res

\* applyPlanSuggestion (part_008:65-176)
ApplyPlanSuggestion(st, suggestion, options, fail) ==
  LET content == suggestion.content
      result == NewResult(<<"Plan suggestion applied successfully">>, TRUE, FALSE, FALSE)
  IN IF options.dryRun
     THEN [st |-> st,
           res |-> [result EXCEPT !.message =
                      <<"Dry run: Would create", Len(content.goals), "goals">>]]
     ELSE LET done == PlanGoals([st |-> st, res |-> result], suggestion.userId,
                                content.goals, options, 1, fail)
          IN [st |-> PlanProgress(done.st, suggestion.userId, content.goals,
                                  done.res.appliedItems, 1, fail),
              res |-> Finalise(done.res, "Plan applied with")]


\* taskQueries.findByUser(userId).find((t) => t.title === title): its id, "" if none
MatchingTask(st, userId, title) ==
  IF \E i \in 1..Len(st.tasks) : st.tasks[i].userId = userId /\ st.tasks[i].title = title
  THEN st.tasks[CHOOSE i \in 1..Len(st.tasks) :
         /\ st.tasks[i].userId = userId /\ st.tasks[i].title = title
         /\ \A k \in 1..(i - 1) : ~(st.tasks[k].userId = userId /\ st.tasks[k].title = title)].id
  ELSE ""

BriefingFailed(acc, taskUpdate) ==
  [acc EXCEPT !.res.errors = Append(@, <<"Failed to update task", taskUpdate.title>>),
              !.res.skippedItems = Append(@, taskUpdate.title)]

\* one iteration of the task loop whose exclusion test passed (part_008:214-252)
BriefingTask(acc, userId, taskUpdate, i, fail) ==
  IF taskUpdate.taskId # ""
  THEN IF <<"update", i>> \in fail THEN BriefingFailed(acc, taskUpdate)
       ELSE [st |-> UpdateTaskPriority(acc.st, taskUpdate.taskId, taskUpdate.priority),
             res |-> [acc.res EXCEPT !.updatedTasks = @ + 1,
                                     !.appliedItems = Append(@, taskUpdate.taskId)]]
  ELSE IF <<"find", i>> \in fail THEN BriefingFailed(acc, taskUpdate)
  ELSE IF MatchingTask(acc.st, userId, taskUpdate.title) # ""
  THEN IF <<"update", i>> \in fail THEN BriefingFailed(acc, taskUpdate)
       ELSE [st |-> UpdateTaskPriority(acc.st, MatchingTask(acc.st, userId, taskUpdate.title),
                                       taskUpdate.priority),
             res |-> [acc.res EXCEPT !.updatedTasks = @ + 1,
                                     !.appliedItems = Append(@, taskUpdate.title)]]
  ELSE [acc EXCEPT !.res.skippedItems = Append(@, taskUpdate.title)]

RECURSIVE BriefingTasks(_, _, _, _, _, _)
BriefingTasks(acc, userId, list, options, i, fail) ==
  IF i > Len(list) THEN acc
  ELSE IF Excluded(options, list[i].taskId)
  THEN BriefingTasks([acc EXCEPT !.res.skippedItems = Append(@, list[i].taskId)],
                     userId, list, options, i + 1, fail)
  ELSE BriefingTasks(BriefingTask(acc, userId, list[i], i, fail),
                     userId, list, options, i + 1, fail)

\* applyBriefingSuggestion (part_008:181-269)
ApplyBriefingSuggestion(st, suggestion, options, fail) ==
  LET content == suggestion.content
      result == NewResult(<<"Briefing suggestion applied successfully">>, FALSE, TRUE, FALSE)
  IN IF options.dryRun
     THEN [st |-> st,
           res |-> [result EXCEPT !.message =
                      <<"Dry run: Would update", Len(content.todaysTasks), "tasks">>]]
     ELSE LET done == BriefingTasks([st |-> st, res |-> result], suggestion.userId,
                                    content.todaysTasks, options, 1, fail)
          IN [st |-> done.st, res |-> Finalise(done.res, "Briefing applied with")]

OrUnknown(id, label) == IF id # "" THEN id ELSE label

\* one iteration of the affectedTasks loop whose exclusion test passed (part_008:308-329)
RescheduleTaskAbortsAfterError(acc, taskUpdate, i, fail) ==
  IF Len(acc.res.errors) > 0 THEN acc
  ELSE IF taskUpdate.taskId # ""
  THEN IF <<"rtask", i>> \in fail
       THEN [acc EXCEPT !.res.errors = Append(@, <<"Failed to reschedule task">>),
                        !.res.skippedItems =
                           Append(@, OrUnknown(taskUpdate.taskId, "Unknown task"))]
       ELSE [st |-> UpdateTaskDueDate(acc.st, taskUpdate.taskId, taskUpdate.suggestedDueDate),
             res |-> [acc.res EXCEPT !.updatedTasks = @ + 1,
                                     !.appliedItems = Append(@, taskUpdate.taskId)]]
  ELSE [acc EXCEPT !.res.skippedItems = Append(@, "Unknown task")]
RescheduleTask(acc, taskUpdate, i, fail) ==
  IF taskUpdate.taskId # ""
  THEN IF <<"rtask", i>> \in fail
       THEN [acc EXCEPT !.res.errors = Append(@, <<"Failed to reschedule task">>),
                        !.res.skippedItems =
                           Append(@, OrUnknown(taskUpdate.taskId, "Unknown task"))]
       ELSE [st |-> UpdateTaskDueDate(acc.st, taskUpdate.taskId, taskUpdate.suggestedDueDate),
             res |-> [acc.res EXCEPT !.updatedTasks = @ + 1,
                                     !.appliedItems = Append(@, taskUpdate.taskId)]]
  ELSE [acc EXCEPT !.res.skippedItems = Append(@, "Unknown task")]

RECURSIVE RescheduleTasks(_, _, _, _, _)
RescheduleTasks(acc, list, options, i, fail) ==
  IF i > Len(list) THEN acc
  ELSE IF Excluded(options, list[i].taskId)
  THEN RescheduleTasks([acc EXCEPT !.res.skippedItems = Append(@, list[i].taskId)],
                       list, options, i + 1, fail)
  ELSE RescheduleTasks(RescheduleTask(acc, list[i], i, fail), list, options, i + 1, fail)

\* one iteration of the affectedEvents loop whose exclusion test passed (part_008:344-368)
RescheduleEvent(acc, eventUpdate, i, fail) ==
  IF eventUpdate.eventId # ""
  THEN IF <<"revent", i>> \in fail
       THEN [acc EXCEPT !.res.errors = Append(@, <<"Failed to reschedule event">>),
                        !.res.skippedItems =
                           Append(@, OrUnknown(eventUpdate.eventId, "Unknown event"))]
       ELSE [st |-> UpdateEventTimes(acc.st, eventUpdate.eventId,
                                     eventUpdate.suggestedStartTime,
                                     eventUpdate.suggestedEndTime),
             res |-> [acc.res EXCEPT !.updatedEvents = @ + 1,
                                     !.appliedItems = Append(@, eventUpdate.eventId)]]
  ELSE [acc EXCEPT !.res.skippedItems = Append(@, "Unknown event")]

RECURSIVE RescheduleEvents(_, _, _, _, _)
RescheduleEvents(acc, list, options, i, fail) ==
  IF i > Len(list) THEN acc
  ELSE IF Excluded(options, list[i].eventId)
  THEN RescheduleEvents([acc EXCEPT !.res.skippedItems = Append(@, list[i].eventId)],
                        list, options, i + 1, fail)
  ELSE RescheduleEvents(RescheduleEvent(acc, list[i], i, fail), list, options, i + 1, fail)

\* applyRescheduleSuggestion (part_008:274-385)
ApplyRescheduleSuggestion(st, suggestion, options, fail) ==
  LET content == suggestion.content
      result == NewResult(<<"Reschedule suggestion applied successfully">>, FALSE, TRUE, TRUE)
  IN IF options.dryRun
     THEN [st |-> st,
           res |-> [result EXCEPT !.message =
                      <<"Dry run: Would update", Len(content.affectedTasks), "tasks">>]]
     ELSE LET tasksDone == RescheduleTasks([st |-> st, res |-> result],
                                           content.affectedTasks, options, 1, fail)
              done == RescheduleEvents(tasksDone, content.affectedEvents, options, 1, fail)
          IN [st |-> done.st, res |-> Finalise(done.res, "Reschedule applied with")]

\* the result of the catch of applySuggestion (part_008:50-59)
FailedResultAsSuccess(message) ==
  [ success |-> TRUE, message |-> <<"Failed to apply suggestion", message>>,
    appliedItems |-> <<>>, skippedItems |-> <<>>, errors |-> <<message>>,
    createdGoals |-> Undefined, createdTasks |-> Undefined,
    updatedTasks |-> Undefined, updatedEvents |-> Undefined ]
FailedResult(message) ==
  [ success |-> FALSE, message |-> <<"Failed to apply suggestion", message>>,
    appliedItems |-> <<>>, skippedItems |-> <<>>, errors |-> <<message>>,
    createdGoals |-> Undefined, createdTasks |-> Undefined,
    updatedTasks |-> Undefined, updatedEvents |-> Undefined ]

\* applySuggestion (part_008:35-60): the store after the call and its result
ApplySuggestionDryRunIgnored(st, suggestion, options, fail) ==
  CASE suggestion.type = "plan" ->
         ApplyPlanSuggestion(st, suggestion, [options EXCEPT !.dryRun = FALSE], fail)
    [] suggestion.type = "briefing" ->
         ApplyBriefingSuggestion(st, suggestion, [options EXCEPT !.dryRun = FALSE], fail)
    [] suggestion.type = "reschedule" ->
         ApplyRescheduleSuggestion(st, suggestion, [options EXCEPT !.dryRun = FALSE], fail)
    [] OTHER -> [st |-> st, res |-> FailedResult("Unknown suggestion type")]
ApplySuggestion(st, suggestion, options, fail) ==
  CASE suggestion.type = "plan" -> ApplyPlanSuggestion(st, suggestion, options, fail)
    [] suggestion.type = "briefing" -> ApplyBriefingSuggestion(st, suggestion, options, fail)
    [] suggestion.type = "reschedule" -> ApplyRescheduleSuggestion(st, suggestion, options, fail)
    [] OTHER -> [st |-> st, res |-> FailedResult("Unknown suggestion type")]

\* the store operations of one applySuggestion call that may fail
RECURSIVE PlanTaskSites(_, _)
PlanTaskSites(goalList, g) ==
  IF g > Len(goalList) THEN {}
  ELSE {<<"task", g, j>> : j \in 1..Len(goalList[g].tasks)} \cup PlanTaskSites(goalList, g + 1)

Sites(suggestion) ==
  CASE suggestion.type = "plan" ->
         {<<"goal", g>> : g \in 1..Len(suggestion.content.goals)}
           \cup PlanTaskSites(suggestion.content.goals, 1)
           \cup {<<"progress", 1>>}
    [] suggestion.type = "briefing" ->
         {<<"update", i>> : i \in 1..Len(suggestion.content.todaysTasks)}
           \cup {<<"find", i>> : i \in 1..Len(suggestion.content.todaysTasks)}
    [] suggestion.type = "reschedule" ->
         {<<"rtask", i>> : i \in 1..Len(suggestion.content.affectedTasks)}
           \cup {<<"revent", i>> : i \in 1..Len(suggestion.content.affectedEvents)}
    [] OTHER -> {}


(***************************************************************************)
(* aiRouter.applySuggestion, batchApplySuggestions, previewSuggestion      *)
(* A handler runs from one await to the next: getSuggestionById, the       *)
(* applicator call, markAsApplied, the response.                           *)
(***************************************************************************)
\* the handler frames; SpecApply runs its requests one at a time, in frame h1
Handlers == {"h1", "h2"}
RequestKinds == {"apply", "batch", "preview"}

\* the rows of ai_suggestions and of the domain tables the requests start from
InitialSuggestions ==
  [ s1 |-> [ id |-> "s1", userId |-> "u1", type |-> "plan", isApplied |-> FALSE,
             isArchived |-> FALSE, createdAt |-> 0, updatedAt |-> 0,
             content |-> [goals |-> <<
               [title |-> "A", tasks |-> << [title |-> "A1", priority |-> "high",
                                             dueDate |-> ""] >>],
               [title |-> "B", tasks |-> << >>],
               [title |-> "C", tasks |-> << >>] >>] ],
    s2 |-> [ id |-> "s2", userId |-> "u1", type |-> "briefing", isApplied |-> FALSE,
             isArchived |-> FALSE, createdAt |-> 0, updatedAt |-> 0,
             content |-> [todaysTasks |-> <<
               [taskId |-> "t1", title |-> "Write report", priority |-> "high"],
               [taskId |-> "", title |-> "Call mom", priority |-> "medium"],
               [taskId |-> "", title |-> "Unlisted", priority |-> "low"] >>] ],
    s3 |-> [ id |-> "s3", userId |-> "u1", type |-> "reschedule", isApplied |-> FALSE,
             isArchived |-> FALSE, createdAt |-> 0, updatedAt |-> 0,
             content |-> [affectedTasks |-> <<
                            [taskId |-> "t1", suggestedDueDate |-> "d9"],
                            [taskId |-> "t2", suggestedDueDate |-> ""],
                            [taskId |-> "", suggestedDueDate |-> "d9"] >>,
                          affectedEvents |-> <<
                            [eventId |-> "e1", suggestedStartTime |-> "s9",
                             suggestedEndTime |-> ""],
                            [eventId |-> "", suggestedStartTime |-> "s9",
                             suggestedEndTime |-> "e9"] >>] ],
    s4 |-> [ id |-> "s4", userId |-> "u2", type |-> "insight", isApplied |-> FALSE,
             isArchived |-> FALSE, createdAt |-> 0, updatedAt |-> 0,
             content |-> [text |-> "x"] ] ]

InitialStore ==
  [ goals |-> << >>,
    tasks |-> << [id |-> "t1", userId |-> "u1", goalId |-> 0, title |-> "Write report",
                  priority |-> "low", dueDate |-> "d0"],
                 [id |-> "t2", userId |-> "u1", goalId |-> 0, title |-> "Call mom",
                  priority |-> "low", dueDate |-> "d0"] >>,
    events |-> << [id |-> "e1", userId |-> "u1", startTime |-> "s0", endTime |-> "e0"] >>,
    writes |-> 0 ]

\* suggestionId values of the requests; "s9" names no row
SuggestionIdArgs == {"s1", "s2", "s3", "s4", "s9"}
SuggestionIdsArgs == { <<"s9", "s2">>, <<"s3", "s4">> }

\* input.options: absent (given = FALSE) or an object after the zod defaults
NoOptions ==
  [given |-> FALSE, applyAll |-> TRUE, hasSelected |-> FALSE, selectedItems |-> {},
   dryRun |-> FALSE]
OptionArgs ==
  {NoOptions}
    \cup [given : {TRUE}, applyAll : {TRUE}, hasSelected : {FALSE}, selectedItems : {{}},
          dryRun : BOOLEAN]
    \cup [given : {TRUE}, applyAll : BOOLEAN, hasSelected : {TRUE},
          selectedItems : {{"A", "t1", "e1", ""}}, dryRun : BOOLEAN]
    \cup [given : {TRUE}, applyAll : {FALSE}, hasSelected : BOOLEAN, selectedItems : {{}},
          dryRun : {FALSE}]

\* input.options?.dryRun
DryRunOf(options) == options.given /\ options.dryRun

\* input.options || { applyAll: true }; previewSuggestion adds dryRun: true
ApplicatorOptions(kind, options) ==
  [ applyAll |-> options.applyAll,
    hasSelected |-> options.hasSelected,
    selectedItems |-> options.selectedItems,
    dryRun |-> IF kind = "preview" THEN TRUE ELSE DryRunOf(options) ]

NoSuggestion == [id |-> ""]
NoCall == [sid |-> ""]
NoResponse == [status |-> "none"]

IdleRequest ==
  [ pc |-> "idle", kind |-> "apply", userId |-> "", ids |-> << >>, idx |-> 0,
    options |-> NoOptions, suggestion |-> NoSuggestion, call |-> NoCall,
    marks |-> << >>, results |-> << >>, response |-> NoResponse ]

\* the handler throws: Error("Failed to ... suggestion: " + message)
Thrown(rq, message) ==
  [rq EXCEPT !.pc = "done", !.response = [status |-> "error", message |-> message]]

\* batch: results.push({suggestionId, success: false, error}); continue
BatchNext(rq, entry) ==
  LET pushed == Append(rq.results, entry)
  IN IF rq.idx < Len(rq.ids)
     THEN [rq EXCEPT !.results = pushed, !.idx = @ + 1, !.pc = "get"]
     ELSE [rq EXCEPT !.results = pushed, !.pc = "done",
                     !.response =
                       [ status |-> "ok",
                         total |-> Len(pushed),
                         successful |-> Cardinality({i \in 1..Len(pushed) : pushed[i].success}),
                         failed |-> Cardinality({i \in 1..Len(pushed) : ~pushed[i].success}) ]]

BatchError(rq, error) ==
  BatchNext(rq, [suggestionId |-> rq.ids[rq.idx], success |-> FALSE, error |-> error])

\* a request that cannot go on: thrown by apply and preview, pushed by batch
Refused(rq, message) ==
  IF rq.kind = "batch" THEN BatchError(rq, message) ELSE Thrown(rq, message)

\* applySuggestion: return { message, suggestion, result }
ApplyResponse(rq, res) ==
  [rq EXCEPT !.pc = "done",
             !.response =
               [ status |-> "ok", message |-> res.message, result |-> res,
                 isApplied |-> IF DryRunOf(rq.options) THEN rq.suggestion.isApplied
                               ELSE TRUE ]]

PreviewResponse(rq, res) ==
  [rq EXCEPT !.pc = "done",
             !.response =
               [ status |-> "ok", message |-> "Preview generated successfully",
                 result |-> res, isApplied |-> rq.suggestion.isApplied ]]

\* the handler's continuation once the applicator (and markAsApplied) returned
Responded(rq, res) ==
  CASE rq.kind = "apply" -> ApplyResponse(rq, res)
    [] rq.kind = "preview" -> PreviewResponse(rq, res)
    [] rq.kind = "batch" ->
         BatchNext(rq, [ suggestionId |-> rq.ids[rq.idx], success |-> res.success,
                         result |-> res,
                         error |-> IF res.success THEN <<"null">> ELSE res.message ])

\* a request arrives; the session's user is authenticated
ReceiveRequest(h) ==
  /\ applyReq[h].pc = "idle"
  /\ store.writes < MaxStoreWrites
  /\ \E kind \in RequestKinds, userId \in Users, options \in OptionArgs :
       \E ids \in IF kind = "batch" THEN SuggestionIdsArgs
                  ELSE { <<id>> : id \in SuggestionIdArgs } :
          /\ kind = "preview" => ~options.dryRun
          /\ applyReq' = [applyReq EXCEPT ![h] =
               [IdleRequest EXCEPT !.pc = "get", !.kind = kind, !.userId = userId,
                                   !.ids = ids, !.idx = 1, !.options = options]]
  /\ UNCHANGED <<store, suggestions>>

\* the checks before the applicator call without the comparison of the row's
\* userId with the session's
AfterGetSuggestionByIdAnyOwner(rq, rows) ==
  LET id == rq.ids[rq.idx]
  IN IF id \notin DOMAIN rows THEN Refused(rq, "Suggestion not found")
     ELSE IF rq.kind # "preview" /\ rows[id].isApplied /\ ~DryRunOf(rq.options)
     THEN IF rq.kind = "batch" THEN BatchError(rq, "Suggestion already applied")
          ELSE [rq EXCEPT !.pc = "done", !.suggestion = rows[id],
                          !.response = [ status |-> "ok",
                                         message |-> "Suggestion already applied",
                                         result |-> NoCall, isApplied |-> TRUE ]]
     ELSE [rq EXCEPT !.pc = "engine", !.suggestion = rows[id]]

\* getSuggestionById and the checks before the applicator call
AfterGetSuggestionById(rq, rows) ==
  LET id == rq.ids[rq.idx]
  IN IF id \notin DOMAIN rows THEN Refused(rq, "Suggestion not found")
     ELSE IF rows[id].userId # rq.userId THEN Refused(rq, "Access denied")
     ELSE IF rq.kind # "preview" /\ rows[id].isApplied /\ ~DryRunOf(rq.options)
     THEN IF rq.kind = "batch" THEN BatchError(rq, "Suggestion already applied")
          ELSE [rq EXCEPT !.pc = "done", !.suggestion = rows[id],
                          !.response = [ status |-> "ok",
                                         message |-> "Suggestion already applied",
                                         result |-> NoCall, isApplied |-> TRUE ]]
     ELSE [rq EXCEPT !.pc = "engine", !.suggestion = rows[id]]

GetSuggestionById(h) ==
  /\ applyReq[h].pc = "get"
  /\ applyReq' = [applyReq EXCEPT ![h] = AfterGetSuggestionById(@, suggestions)]
  /\ UNCHANGED <<store, suggestions>>

\* if (!input.options?.dryRun && result.success) await aiQueries.markAsApplied(id)
MarksAppliedAlways(rq, res) == rq.kind # "preview"
MarksApplied(rq, res) ==
  rq.kind # "preview" /\ ~DryRunOf(rq.options) /\ res.success

\* applicator.applySuggestion / previewSuggestion with the row read before
ApplicatorCall(h) ==
  /\ applyReq[h].pc = "engine"
  /\ \E fail \in SUBSET Sites(applyReq[h].suggestion) :
       LET rq == applyReq[h]
           options == ApplicatorOptions(rq.kind, rq.options)
           r == ApplySuggestion(store, rq.suggestion, options, fail)
           called == [rq EXCEPT !.call = [ sid |-> rq.suggestion.id,
                                           type |-> rq.suggestion.type,
                                           options |-> options, fail |-> fail,
                                           before |-> store, after |-> r.st,
                                           res |-> r.res ]]
       IN /\ store' = r.st
          /\ applyReq' = [applyReq EXCEPT ![h] =
               IF MarksApplied(rq, r.res) THEN [called EXCEPT !.pc = "mark"]
               ELSE Responded(called, r.res)]
  /\ UNCHANGED suggestions

\* aiQueries.markAsApplied(id): update ... set isApplied = true where id = id
MarkAsApplied(h) ==
  /\ applyReq[h].pc = "mark"
  /\ LET rq == applyReq[h]
         id == rq.ids[rq.idx]
         marked == [rq EXCEPT !.marks = Append(@, [ suggestionId |-> id,
                                                    dryRun |-> DryRunOf(rq.options),
                                                    success |-> rq.call.res.success ])]
     IN \/ /\ suggestions' = [suggestions EXCEPT ![id].isApplied = TRUE]
           /\ applyReq' = [applyReq EXCEPT ![h] = Responded(marked, rq.call.res)]
        \/ /\ UNCHANGED suggestions
           /\ applyReq' = [applyReq EXCEPT ![h] = Refused(marked, "store error")]
  /\ UNCHANGED store

\* the response is sent; the handler's frame is gone
Respond(h) ==
  /\ applyReq[h].pc = "done"
  /\ applyReq' = [applyReq EXCEPT ![h] = IdleRequest]
  /\ UNCHANGED <<store, suggestions>>

InitApplyVars ==
  /\ store = InitialStore
  /\ suggestions = InitialSuggestions
  /\ applyReq = [h \in Handlers |-> IdleRequest]


(***************************************************************************)
(* aiRouter.archiveSuggestion, restoreSuggestion, duplicateSuggestion and  *)
(* cleanupSuggestions. createdAt and updatedAt are day numbers; the        *)
(* requests arrive one at a time, between the apply requests.              *)
(***************************************************************************)
\* aiQueries.archiveSuggestion: set isArchived = true, updatedAt = now
ArchiveSuggestion(table, suggestionId, t) ==
  [table EXCEPT ![suggestionId].isArchived = TRUE, ![suggestionId].updatedAt = t]

\* aiQueries.restoreSuggestion: set isArchived = false, updatedAt = now
RestoreSuggestion(table, suggestionId, t) ==
  [table EXCEPT ![suggestionId].isArchived = FALSE, ![suggestionId].updatedAt = t]

\* the id `ai_${Date.now()}_${random}` makes for a copy
CopyIds == {"c1"}

\* aiQueries.duplicateSuggestion: a new row with the type and content of the
\* original, not applied, not archived
DuplicateSuggestion(table, originalSuggestionId, userId, newId, t) ==
  [ id \in DOMAIN table \cup {newId} |->
      IF id = newId
      THEN [ id |-> newId, userId |-> userId,
             type |-> table[originalSuggestionId].type,
             content |-> table[originalSuggestionId].content,
             isApplied |-> FALSE, isArchived |-> FALSE, createdAt |-> t, updatedAt |-> t ]
      ELSE table[id] ]

\* aiQueries.deleteOldSuggestions with every row of the user deleted, applied or not
DeleteOldSuggestionsAppliedToo(table, userId, daysOld, t) ==
  LET cutoffDate == t - daysOld
      deleted == { id \in DOMAIN table :
                     table[id].userId = userId /\ table[id].createdAt < cutoffDate }
  IN [id \in DOMAIN table \ deleted |-> table[id]]

\* aiQueries.deleteOldSuggestions: delete where userId = userId and
\* createdAt < now - daysOld and isApplied = false
DeleteOldSuggestions(table, userId, daysOld, t) ==
  LET cutoffDate == t - daysOld
      deleted == { id \in DOMAIN table :
                     /\ table[id].userId = userId
                     /\ table[id].createdAt < cutoffDate
                     /\ table[id].isApplied = FALSE }
  IN [id \in DOMAIN table \ deleted |-> table[id]]

\* the daysOld argument: z.number().min(1)
DaysOldArgs == {1, 2}

\* what the last request answered: a message object, or an Error thrown with
\* the message of the failed check
LifecycleIdle == [status |-> "none", message |-> ""]
LifecycleError(op, message) == [status |-> "error", message |-> message]
LifecycleOk(op, id) == [status |-> "ok", message |-> ""]

\* the checks archive, restore and duplicate make on the row they read
LifecycleRefusal(table, suggestionId, userId) ==
  IF suggestionId \notin DOMAIN table THEN "Suggestion not found"
  ELSE IF table[suggestionId].userId # userId THEN "Access denied"
  ELSE ""

\* aiRouter.archiveSuggestion
ArchiveSuggestionRequest(userId, suggestionId) ==
  /\ \A h \in Handlers : applyReq[h].pc = "idle"
  /\ LET refusal == LifecycleRefusal(suggestions, suggestionId, userId)
     IN IF refusal # ""
        THEN /\ lifecycle' = LifecycleError("archive", refusal)
             /\ UNCHANGED suggestions
        ELSE /\ suggestions' = ArchiveSuggestion(suggestions, suggestionId, lifeDay)
             /\ lifecycle' = LifecycleOk("archive", suggestionId)
  /\ UNCHANGED <<store, applyReq, lifeDay>>

\* aiRouter.restoreSuggestion
RestoreSuggestionRequest(userId, suggestionId) ==
  /\ \A h \in Handlers : applyReq[h].pc = "idle"
  /\ LET refusal == LifecycleRefusal(suggestions, suggestionId, userId)
     IN IF refusal # ""
        THEN /\ lifecycle' = LifecycleError("restore", refusal)
             /\ UNCHANGED suggestions
        ELSE /\ suggestions' = RestoreSuggestion(suggestions, suggestionId, lifeDay)
             /\ lifecycle' = LifecycleOk("restore", suggestionId)
  /\ UNCHANGED <<store, applyReq, lifeDay>>

\* aiRouter.duplicateSuggestion
DuplicateSuggestionRequest(userId, suggestionId) ==
  /\ \A h \in Handlers : applyReq[h].pc = "idle"
  /\ LET refusal == LifecycleRefusal(suggestions, suggestionId, userId)
     IN IF refusal # ""
        THEN /\ lifecycle' = LifecycleError("duplicate", refusal)
             /\ UNCHANGED suggestions
        ELSE \E newId \in CopyIds :
               IF newId \in DOMAIN suggestions
               THEN \* the insert violates the primary key
                    /\ lifecycle' = LifecycleError("duplicate", "store error")
                    /\ UNCHANGED suggestions
               ELSE /\ suggestions' =
                         DuplicateSuggestion(suggestions, suggestionId, userId, newId, lifeDay)
                    /\ lifecycle' = LifecycleOk("duplicate", newId)
  /\ UNCHANGED <<store, applyReq, lifeDay>>

\* aiRouter.cleanupSuggestions
CleanupSuggestionsRequest(userId, daysOld) ==
  /\ \A h \in Handlers : applyReq[h].pc = "idle"
  /\ suggestions' = DeleteOldSuggestions(suggestions, userId, daysOld, lifeDay)
  /\ lifecycle' = LifecycleOk("cleanup", "")
  /\ UNCHANGED <<store, applyReq, lifeDay>>

\* a day passes between two requests
DayPasses ==
  /\ \A h \in Handlers : applyReq[h].pc = "idle"
  /\ lifeDay < MaxLifeDay
  /\ lifeDay' = lifeDay + 1
  /\ UNCHANGED <<store, suggestions, applyReq, lifecycle>>

\* the rows of InitialSuggestions were created on day 0, the day before
InitLifeVars ==
  /\ lifeDay = 1
  /\ lifecycle = LifecycleIdle


(***************************************************************************)
(* AIService.generatePlan / generateBriefing / generateReschedule          *)
(* Strings that reach a cache key are sequences of characters. The clock   *)
(* `now` is in milliseconds and advances in steps of the shortest TTL.     *)
(***************************************************************************)
\* simple-cache.ts:128-135
CACHE_TTL ==
  [plan |-> 2 * 60 * 60 * 1000, briefing |-> 30 * 60 * 1000, reschedule |-> 60 * 60 * 1000]

TickMs == CACHE_TTL.briefing

Undefined_ == [t |-> "undefined"]
Str(chars) == [t |-> "string", v |-> chars]
Strs(list) == [t |-> "strings", v |-> list]
Objs(n) == [t |-> "objects", n |-> n]
Obj == [t |-> "object"]

\* Array.prototype.join(sep) on a list of character sequences
RECURSIVE Join(_, _)
Join(list, sep) ==
  IF Len(list) = 0 THEN << >>
  ELSE IF Len(list) = 1 THEN list[1]
  ELSE list[1] \o sep \o Join(Tail(list), sep)

\* `${value}`: the string a template literal makes of a parameter value
TemplateString(value) ==
  CASE value.t = "string" -> value.v
    [] value.t = "undefined" -> <<"u", "n", "d", "e", "f", "i", "n", "e", "d">>
    [] value.t = "strings" -> Join(value.v, <<",">>)
    [] value.t = "objects" -> Join([i \in 1..value.n |-> <<"[object Object]">>], <<",">>)
    [] value.t = "object" -> <<"[object Object]">>

\* a parameter object is the sequence of its properties, <<name, value>>,
\* in insertion order. The parameter names of the three key objects, and the
\* names a and b, in the order of their UTF-16 code units:
KeyOrder ==
  << "a", "b", "backlogTasks", "completionHistory", "currentDate", "currentMonth", "currentWeek",
     "deadlinePressure", "energyLevels", "energyPatterns", "energyTrends",
     "existingCommitments", "fixedCommitments", "habitStreaks", "nearDeadlines",
     "preferredTimes", "stressLevel", "todaysTasks", "userGoals", "workHours",
     "yesterdayProgress" >>

\* Object.keys(params): the names in insertion order
ObjectKeys(params) == [i \in 1..Len(params) |-> params[i][1]]

\* params[key]
ValueOf(params, key) ==
  params[CHOOSE i \in 1..Len(params) : params[i][1] = key][2]

\* the comparison sort() makes when it is given no comparator
CodeUnitsBefore(a, b) ==
  \E i, j \in 1..Len(KeyOrder) : KeyOrder[i] = a /\ KeyOrder[j] = b /\ i < j

\* Array.prototype.sort(): each name is put before the first sorted name it
\* does not follow
RECURSIVE InsertSorted(_, _)
InsertSorted(key, sorted) ==
  IF sorted = << >> THEN <<key>>
  ELSE IF CodeUnitsBefore(Head(sorted), key)
       THEN <<Head(sorted)>> \o InsertSorted(key, Tail(sorted))
       ELSE <<key>> \o sorted

RECURSIVE Sort(_)
Sort(keys) ==
  IF keys = << >> THEN << >> ELSE InsertSorted(Head(keys), Sort(Tail(keys)))

\* Object.keys(params) with the sort() left out
SortedKeysUnsorted(params) == ObjectKeys(params)

\* Object.keys(params).sort()
SortedKeys(params) == Sort(ObjectKeys(params))

\* SimpleCache.generateKey(prefix, params)
GenerateKey(prefix, params) ==
  LET keys == SortedKeys(params)
      sortedParams == Join([i \in 1..Len(keys) |->
                              <<keys[i], ":">> \o TemplateString(ValueOf(params, keys[i]))],
                           <<"|">>)
  IN <<prefix, ":">> \o sortedParams

\* the object each generate* method passes to generateKey (ai-service.ts:104-111,
\* 239-246, 374-382): currentDate of a plan input is not part of it
KeyParams(kind, input) ==
  CASE kind = "plan" ->
         << <<"userGoals", input.userGoals>>, <<"currentMonth", input.currentMonth>>,
            <<"existingCommitments", input.existingCommitments>>,
            <<"workHours", input.workHours>>, <<"energyPatterns", input.energyPatterns>>,
            <<"preferredTimes", input.preferredTimes>> >>
    [] kind = "briefing" ->
         << <<"currentDate", input.currentDate>>, <<"todaysTasks", input.todaysTasks>>,
            <<"yesterdayProgress", input.yesterdayProgress>>,
            <<"habitStreaks", input.habitStreaks>>, <<"nearDeadlines", input.nearDeadlines>>,
            <<"energyLevels", input.energyLevels>> >>
    [] kind = "reschedule" ->
         << <<"currentWeek", input.currentWeek>>, <<"backlogTasks", input.backlogTasks>>,
            <<"completionHistory", input.completionHistory>>,
            <<"deadlinePressure", input.deadlinePressure>>,
            <<"stressLevel", input.stressLevel>>, <<"energyTrends", input.energyTrends>>,
            <<"fixedCommitments", input.fixedCommitments>> >>

\* the inputs of the modelled calls
PlanInput(commitments) ==
  [ userGoals |-> Str(<<"r", "u", "n">>), currentMonth |-> Str(<<"5">>),
    currentDate |-> Str(<<"1">>), existingCommitments |-> Strs(commitments),
    workHours |-> Undefined_, energyPatterns |-> Undefined_,
    preferredTimes |-> Undefined_ ]

GenerateInputs(kind) ==
  CASE kind = "plan" ->
         { PlanInput(<< <<"x">>, <<"y">> >>) }
    [] kind = "briefing" ->
         { [ currentDate |-> Str(<<"1">>), todaysTasks |-> Objs(2),
             yesterdayProgress |-> Undefined_, habitStreaks |-> Obj,
             nearDeadlines |-> Undefined_, energyLevels |-> Str(<<"l", "o">>) ] }
    [] kind = "reschedule" ->
         { [ currentWeek |-> Str(<<"2">>), backlogTasks |-> Objs(1),
             completionHistory |-> Undefined_, deadlinePressure |-> Undefined_,
             stressLevel |-> Str(<<"l", "o">>), energyTrends |-> Undefined_,
             fixedCommitments |-> Strs(<< >>) ] }

GenerateKeys ==
  UNION { { GenerateKey(kind, KeyParams(kind, input)) : input \in GenerateInputs(kind) } :
          kind \in Kinds }

\* the userId argument: "" when the caller gives none
UserIdArgs == {"", "u1"}

\* response.choices[0].message.content: two JSON documents and one that
\* JSON.parse rejects; an empty content makes fn throw "No response from AI model"
ProviderContents == {"json1", "json2", "notJson"}
ProviderErrors == { <<"Unauthorized">>, <<"No", "response", "from", "AI", "model">> }

IsJson(data) == data # "notJson"

\* JSON.parse and the mapping to the kind's content type
Transform(kind, data) ==
  CASE data = "json1" -> "content1"
    [] data = "json2" -> "content2"

NoContent == None

\* the template content the fallback generator of the kind builds
FallbackContent(kind) == "template"

\* generate*Fallback: the template is built inside a try whose catch returns
\* success false; todaysTasks.filter and backlogTasks.map throw on a value that
\* is not an array, the plan template is built from JSON.stringify(input)
FallbackSucceeds(type, input) ==
  CASE type = "plan" -> TRUE
    [] type = "briefing" -> input.todaysTasks.t = "objects"
    [] type = "reschedule" -> input.backlogTasks.t = "objects"

\* FallbackHandler.handleAIError(error, type, input): the switch on type
HandleAIError(type, input) ==
  IF type \in Kinds /\ FallbackSucceeds(type, input)
  THEN [success |-> TRUE, data |-> FallbackContent(type)]
  ELSE [success |-> FALSE, data |-> NoContent]

\* a setUserLimits argument that lets one generation a day through
StrictDailyLimit == [f \in {"daily"} |-> 1]

GenIdle == [pc |-> "idle"]
NoModelCall == [cacheKey |-> << >>]

\* the call returns or throws
Returned(g, outcome, content) ==
  [g EXCEPT !.pc = "done", !.outcome = outcome, !.content = content]

\* checkLimit did not allow the call: the rate-limit error is thrown before the try
AfterDenialFallsBack(g) == Returned(g, "fallback", FallbackContent(g.kind))
AfterDenial(g) == Returned(g, "rate-limited", NoContent)

\* the synchronous head of generate*: cache lookup, then checkLimit for a userId
GenerateBegin(kind, input, userId) ==
  /\ gen.pc = "idle"
  /\ nGenerate < MaxGenerate
  /\ nGenerate' = nGenerate + 1
  /\ LET cacheKey == GenerateKey(kind, KeyParams(kind, input))
         cached == CacheLookup(cache, cacheKey, now)
         status == CheckLimitStatus(userLimits, dailyUsage, monthlyUsage, userId, kind)
         g == [ pc |-> "model", kind |-> kind, input |-> input, userId |-> userId,
                cacheKey |-> cacheKey, startedAt |-> now, outcome |-> None,
                content |-> NoContent, providerCalls |-> 0, recordUsageCalls |-> 0 ]
     IN /\ cache' = CacheAfterGet(cache, cacheKey, now)
        /\ IF cached # None
           THEN /\ gen' = Returned(g, "cache", cached)
                /\ UNCHANGED <<limiterVars, retry>>
           ELSE IF userId # ""
           THEN /\ lastCheck' = status
                /\ userLimits' = [userLimits EXCEPT ![userId] = LimitsOf(userLimits, userId)]
                /\ UNCHANGED <<dailyUsage, monthlyUsage>>
                /\ IF status.allowed
                   THEN /\ gen' = g
                        /\ retry' = RetryStart(GetStrategyOptions("ai-service", EmptyOptions))
                   ELSE /\ gen' = AfterDenial(g)
                        /\ UNCHANGED retry
           ELSE /\ gen' = g
                /\ retry' = RetryStart(GetStrategyOptions("ai-service", EmptyOptions))
                /\ UNCHANGED limiterVars
  /\ UNCHANGED <<now, lastSet, lastGet, lastModel>>

\* this.client.chat.completions.create resolves with a non-empty content
ProviderResolves(data) ==
  /\ gen.pc = "model"
  /\ retry.pc = "call"
  /\ retry' = RetryAfterSuccess(retry, data)
  /\ gen' = [gen EXCEPT !.providerCalls = @ + 1]
  /\ UNCHANGED <<cacheVars, limiterVars, lastModel, nGenerate>>

\* it rejects, or resolves with no content
ProviderThrows(message) ==
  /\ gen.pc = "model"
  /\ retry.pc = "call"
  /\ retry' = RetryAfterError(retry, message)
  /\ gen' = [gen EXCEPT !.providerCalls = @ + 1]
  /\ UNCHANGED <<cacheVars, limiterVars, lastModel, nGenerate>>

BackoffElapses ==
  /\ gen.pc = "model"
  /\ retry.pc = "sleep"
  /\ retry' = RetryAfterSleep(retry)
  /\ UNCHANGED <<cacheVars, limiterVars, genVars>>

\* the catch block: the fallback for a userId, else the error is rethrown
AfterCatchRethrows(g) == Returned(g, "failed", NoContent)
\* the catch block with the generation counted as usage
AfterCatchRecordsUsage(g) ==
  LET fallbackResult == HandleAIError(g.kind, g.input)
      counted == [g EXCEPT !.recordUsageCalls = @ + 1]
  IN IF g.userId # "" /\ fallbackResult.success /\ fallbackResult.data # NoContent
     THEN Returned(counted, "fallback", fallbackResult.data)
     ELSE Returned(counted, "failed", NoContent)
AfterCatch(g) ==
  LET fallbackResult == HandleAIError(g.kind, g.input)
  IN IF g.userId # "" /\ fallbackResult.success /\ fallbackResult.data # NoContent
     THEN Returned(g, "fallback", fallbackResult.data)
     ELSE Returned(g, "failed", NoContent)

\* executeWithStrategy returned: parse, cache.set, recordUsage, or the catch block
GenerateFinish ==
  /\ gen.pc = "model"
  /\ retry.pc = "done"
  /\ retry' = RetryIdle
  /\ IF retry.result.success /\ IsJson(retry.result.data)
     THEN LET result == Transform(gen.kind, retry.result.data)
          IN /\ cache' = CacheAfterSet(cache, gen.cacheKey, result, CACHE_TTL[gen.kind], now)
             /\ IF gen.userId # ""
                THEN /\ dailyUsage' = UsageAfterRecord(dailyUsage, gen.userId, gen.kind)
                     /\ monthlyUsage' = [monthlyUsage EXCEPT ![gen.userId] = @ + 1]
                     /\ gen' = [Returned(gen, "model", result) EXCEPT !.recordUsageCalls = @ + 1]
                ELSE /\ UNCHANGED <<dailyUsage, monthlyUsage>>
                     /\ gen' = Returned(gen, "model", result)
             /\ UNCHANGED <<userLimits, lastCheck>>
     ELSE /\ gen' = AfterCatch(gen)
          /\ UNCHANGED <<cache, limiterVars>>
  /\ UNCHANGED <<now, lastSet, lastGet, lastModel, nGenerate>>

\* the caller has the content or the error
GenerateReturn ==
  /\ gen.pc = "done"
  /\ gen' = GenIdle
  /\ lastModel' = IF gen.outcome = "model"
                  THEN [ cacheKey |-> gen.cacheKey, kind |-> gen.kind, at |-> now,
                         userId |-> gen.userId, content |-> gen.content,
                         providerCalls |-> gen.providerCalls,
                         recordUsageCalls |-> gen.recordUsageCalls ]
                  ELSE lastModel
  /\ lastCheck' = NoCheck
  /\ UNCHANGED <<cacheVars, userLimits, dailyUsage, monthlyUsage, retryVars, nGenerate>>

\* wall-clock time passes between calls and while a call awaits the provider
\* or a backoff delay; the code between two awaits runs within one instant
GenerateTick ==
  /\ gen.pc = "idle" \/ (gen.pc = "model" /\ retry.pc \in {"call", "sleep"})
  /\ now < MaxGenTicks * TickMs
  /\ now' = now + TickMs
  /\ UNCHANGED <<cache, lastSet, lastGet, limiterVars, retryVars, genVars>>

InitGenVars ==
  /\ gen = GenIdle
  /\ lastModel = NoModelCall
  /\ nGenerate = 0


(***************************************************************************)
(* aiRouter.generatePlan / generateBriefing / generateReschedule           *)
(* The handlers call aiService.generate* without a userId and insert the   *)
(* returned content as a new ai_suggestions row.                           *)
(***************************************************************************)

\* the hoursOld argument of the handler's getRecentByType call; the reschedule
\* handler makes no such call (routers/ai.ts:34, 249-253)
RecentHours == [plan |-> 2, briefing |-> 1]

RECURSIVE Reverse(_)
Reverse(list) == IF list = << >> THEN << >> ELSE Append(Reverse(Tail(list)), Head(list))

\* aiQueries.getRecentByType(userId, type, hoursOld) at time t
GetRecentByType(table, userId, type, hoursOld, t) ==
  LET cutoffDate == t - hoursOld * HourMs
  IN Reverse(SelectSeq(table, LAMBDA row :
       row.userId = userId /\ row.type = type /\ row.createdAt >= cutoffDate))

\* aiQueries.createSuggestion(userId, type, content) at time t
CreateSuggestion(table, userId, type, content, t) ==
  Append(table, [ id |-> Len(table) + 1, userId |-> userId, type |-> type,
                  content |-> content, isApplied |-> FALSE, createdAt |-> t ])

RouteIdle == [pc |-> "idle"]
NoSuggestionId == 0
RouteError == [suggestionId |-> NoSuggestionId, content |-> NoContent,
               isRecent |-> FALSE, error |-> TRUE]
RouteResponse(suggestionId, content, isRecent) ==
  [suggestionId |-> suggestionId, content |-> content, isRecent |-> isRecent,
   error |-> FALSE]

\* the handler up to its call of aiService.generate*: the recent check of the
\* plan and briefing handlers answers with the newest recent row
RouteBegin(kind, userId) ==
  /\ route.pc = "idle"
  /\ gen.pc = "idle"
  /\ nGenerate < MaxGenerate
  /\ LET recent == IF kind \in DOMAIN RecentHours
                   THEN GetRecentByType(createdSuggestions, userId, kind,
                                        RecentHours[kind], now)
                   ELSE << >>
     IN route' = IF Len(recent) > 0
                 THEN [ pc |-> "respond", kind |-> kind, userId |-> userId,
                        response |-> RouteResponse(recent[1].id, recent[1].content, TRUE) ]
                 ELSE [ pc |-> "generate", kind |-> kind, userId |-> userId,
                        response |-> RouteError ]
  /\ UNCHANGED <<createdSuggestions, cacheVars, limiterVars, retryVars, genVars>>

\* aiService.generate*(input): no userId is passed
RouteGenerate(kind, input) ==
  /\ route.pc = "generate"
  /\ route.kind = kind
  /\ GenerateBegin(kind, input, "")
  /\ UNCHANGED routeVars

\* generate* returned or threw: createSuggestion, whose insert may fail
RouteCreateSuggestion(inserted) ==
  /\ route.pc = "generate"
  /\ gen.pc = "done"
  /\ gen' = GenIdle
  /\ IF gen.content # NoContent /\ inserted
     THEN /\ createdSuggestions' =
               CreateSuggestion(createdSuggestions, route.userId, route.kind, gen.content, now)
          /\ route' = [route EXCEPT !.pc = "respond",
                          !.response = RouteResponse(Len(createdSuggestions) + 1,
                                                     gen.content, FALSE)]
     ELSE /\ route' = [route EXCEPT !.pc = "respond", !.response = RouteError]
          /\ UNCHANGED createdSuggestions
  /\ UNCHANGED <<cacheVars, limiterVars, retryVars, lastModel, nGenerate>>

RouteRespond ==
  /\ route.pc = "respond"
  /\ route' = RouteIdle
  /\ UNCHANGED <<createdSuggestions, cacheVars, limiterVars, retryVars, genVars>>

InitRouteVars ==
  /\ route = RouteIdle
  /\ createdSuggestions = << >>


(***************************************************************************)
(* Two generate* calls in flight at once                                   *)
(* The event loop runs one call at a time and may resume the other call at *)
(* any await; `parked` holds the locals of the call that is not running.   *)
(***************************************************************************)
\* the suspended call: its generate* frame, its SimpleRetry.execute frame, and
\* whether the running call was begun while this one awaited the provider
Parked(g, rt, overlapped) == [gen |-> g, retry |-> rt, overlapped |-> overlapped]

\* the event loop resumes the other call
Resume ==
  /\ gen' = parked.gen
  /\ retry' = parked.retry
  /\ parked' = Parked(gen, retry, parked.overlapped)
  /\ UNCHANGED <<cacheVars, limiterVars, lastModel, nGenerate>>

\* a call of u1 begins, possibly while the other call is in flight
ConcurrentBegin(kind, input, userId) ==
  /\ GenerateBegin(kind, input, userId)
  /\ parked' = [parked EXCEPT !.overlapped = @ \/ parked.gen.pc = "model"]

InitRaceVars == parked = Parked(GenIdle, RetryIdle, FALSE)


(***************************************************************************)
(* generatePlan: JSON.parse and the mapping to PlanSuggestionContent       *)
(* A parsed value is tagged with its JSON type; a property the document    *)
(* leaves out reads as undefined. Dates are day numbers.                   *)
(***************************************************************************)
Val(v) == [t |-> "value", v |-> v]
IsDefined(x) == x.t # "undefined"

\* the elements of weekly_breakdown the modelled responses are built from
WeekDocs ==
  { [week |-> w, focus |-> f, goals |-> g, daily_tasks |-> d] :
      w \in {Undefined_, Val(1), Val(2)},
      f \in {Undefined_, Val(""), Val("Fitness")},
      g \in {Undefined_, Val(<< >>), Val(<<"5k", "sleep">>)},
      d \in { Undefined_, Val(<< >>),
              Val(<< <<"Monday", <<"run">> >> >>),
              Val(<< <<"Sunday", <<"rest", "plan">> >>, <<"Funday", <<"x">> >> >>) } }

JsonNull == [t |-> "null"]
JsonObject(weeklyBreakdown) == [t |-> "object", weekly_breakdown |-> weeklyBreakdown]

\* what JSON.parse makes of the modelled responses: null, an object without
\* weekly_breakdown, and objects with zero, one or two weeks
PlanDocs ==
  {JsonNull, JsonObject(Undefined_), JsonObject(Val(<< >>))}
    \cup { JsonObject(Val(<<w>>)) : w \in WeekDocs }
    \cup { JsonObject(Val(<<w, w>>)) :
             w \in { x \in WeekDocs : IsDefined(x.week) /\ ~IsDefined(x.goals) } }

\* `${week.week}`
WeekText(week) ==
  IF ~IsDefined(week) THEN "undefined" ELSE IF week.v = 1 THEN "1" ELSE "2"

\* dayMap[day]: 0 for Sunday and, standing for undefined, for an unknown day
DayMap(day) ==
  CASE day = "Monday" -> 1 [] day = "Tuesday" -> 2 [] day = "Wednesday" -> 3
    [] day = "Thursday" -> 4 [] day = "Friday" -> 5 [] day = "Saturday" -> 6
    [] OTHER -> 0

\* getDueDateForDay(day, _month, week) called on day `today`
GetDueDateForDay(day, week, today) ==
  LET dayOffset == (week - 1) * 7 + (IF DayMap(day) # 0 THEN DayMap(day) ELSE 1)
  IN today + dayOffset

\* Object.entries(daily_tasks).flatMap(([day, tasks]) => tasks.map(...))
RECURSIVE DailyTasks(_, _, _)
DailyTasks(entries, week, today) ==
  IF entries = << >> THEN << >>
  ELSE LET day == Head(entries)[1]
           tasks == Head(entries)[2]
       IN [j \in 1..Len(tasks) |->
             [title |-> tasks[j], priority |-> "medium",
              dueDate |-> GetDueDateForDay(day, week, today)]]
          \o DailyTasks(Tail(entries), week, today)

\* the goal made of one element of weekly_breakdown (ai-service.ts:182-198)
TransformWeek(week, today) ==
  [ title |-> IF IsDefined(week.focus) /\ week.focus.v # ""
              THEN <<week.focus.v>>
              ELSE <<"Week", WeekText(week.week), "Goals">>,
    description |-> IF IsDefined(week.goals)
                    THEN Join([i \in 1..Len(week.goals.v) |-> <<week.goals.v[i]>>], <<", ">>)
                    ELSE << >>,
    category |-> "monthly",
    tasks |-> DailyTasks(IF IsDefined(week.daily_tasks) THEN week.daily_tasks.v ELSE << >>,
                         IF IsDefined(week.week) THEN week.week.v ELSE 1, today) ]

\* parsed.weekly_breakdown?.map(...) || []
TransformGoals(parsed, today) ==
  IF IsDefined(parsed.weekly_breakdown)
  THEN [i \in 1..Len(parsed.weekly_breakdown.v) |->
          TransformWeek(parsed.weekly_breakdown.v[i], today)]
  ELSE << >>

TransformIdle == [pc |-> "idle"]

\* JSON.parse(retryResult.data) returned `doc` on day `today`
JsonParse(doc, today) ==
  /\ transform.pc # "parsed"
  /\ transform' = [pc |-> "parsed", doc |-> doc, today |-> today]

\* the result object is built, or reading a property of null throws into the
\* catch block
TransformPlan ==
  /\ transform.pc = "parsed"
  /\ transform' =
       IF transform.doc.t = "null"
       THEN [transform EXCEPT !.pc = "caught"]
       ELSE [ pc |-> "returned", doc |-> transform.doc, today |-> transform.today,
              content |-> [goals |-> TransformGoals(transform.doc, transform.today)] ]

(***************************************************************************)
(* FallbackHandler.generatePlanFallback                                    *)
(*                                                                         *)
(* A text is a sequence of one-character strings, so that split, trim,     *)
(* replace and toLowerCase are computed character by character.            *)
(***************************************************************************)
Upper == <<"A", "B", "C", "D", "E", "F", "G", "H", "I", "J", "K", "L", "M",
           "N", "O", "P", "Q", "R", "S", "T", "U", "V", "W", "X", "Y", "Z">>
Lower == <<"a", "b", "c", "d", "e", "f", "g", "h", "i", "j", "k", "l", "m",
           "n", "o", "p", "q", "r", "s", "t", "u", "v", "w", "x", "y", "z">>

\* String.prototype.toLowerCase, character by character
LowerCaseOf(s) ==
  [ i \in 1..Len(s) |->
      IF \E k \in 1..Len(Upper) : Upper[k] = s[i]
      THEN Lower[CHOOSE k \in 1..Len(Upper) : Upper[k] = s[i]]
      ELSE s[i] ]

\* the characters \s matches and trim removes
IsSpace(c) == c \in {" ", "\n", "\r", "\t"}

RECURSIVE TrimStart(_)
TrimStart(s) ==
  IF s = <<>> \/ ~IsSpace(Head(s)) THEN s ELSE TrimStart(Tail(s))

RECURSIVE TrimEnd(_)
TrimEnd(s) ==
  IF s = <<>> \/ ~IsSpace(s[Len(s)]) THEN s ELSE TrimEnd(SubSeq(s, 1, Len(s) - 1))

\* String.prototype.trim
Trim(s) == TrimEnd(TrimStart(s))

\* String.prototype.split with a pattern [seps]+ : the pieces between maximal
\* runs of separators; a run at either end leaves an empty piece there, and
\* the empty text splits into one empty piece
RECURSIVE SplitFrom(_, _, _, _, _)
SplitFrom(s, seps, i, piece, acc) ==
  IF i > Len(s) THEN Append(acc, piece)
  ELSE IF s[i] \in seps
       THEN IF i > 1 /\ s[i - 1] \in seps
            THEN SplitFrom(s, seps, i + 1, piece, acc)
            ELSE SplitFrom(s, seps, i + 1, <<>>, Append(acc, piece))
       ELSE SplitFrom(s, seps, i + 1, Append(piece, s[i]), acc)

Split(s, seps) == SplitFrom(s, seps, 1, <<>>, <<>>)

\* Array.prototype.slice(from, to) with 0 <= from
Slice(q, from, to) == SubSeq(q, from + 1, Min2(to, Len(q)))

\* the filter (s) => s.trim().length > 0
NonBlank(s) == Len(Trim(s)) > 0

\* the filter (goal) => goal.length > 0
NonEmpty(s) == Len(s) > 0

SentenceEnds == {".", "!", "?"}
LineEnds == {"\n", "\r"}

\* the character class of the bullet pattern; its three further members are
\* the letters of a mis-encoded bullet sign, which no text below contains
BulletMarks == {"-", "*"}

\* point.replace(/^[-*...]\s*/, ""): one leading mark and the white space
\* after it are removed; a point that starts with anything else is unchanged
StripBullet(point) ==
  IF point # <<>> /\ Head(point) \in BulletMarks THEN TrimStart(Tail(point)) ELSE point

GenericGoal ==
  <<"C", "o", "m", "p", "l", "e", "t", "e", " ", "m", "y", " ", "m", "o", "n", "t", "h",
     "l", "y", " ", "o", "b", "j", "e", "c", "t", "i", "v", "e", "s">>

\* extractGoals with the sentences tried before the lines
ExtractGoalsSentencesFirst(userGoals) ==
  LET sentences == SelectSeq(Split(userGoals, SentenceEnds), NonBlank)
      bulletPoints == SelectSeq(Split(userGoals, LineEnds), NonBlank)
      fromSentences == Slice(sentences, 0, 5)
      fromBullets ==
        IF Len(fromSentences) = 0 /\ Len(bulletPoints) > 1
        THEN SelectSeq([i \in 1..Len(bulletPoints) |-> Trim(StripBullet(bulletPoints[i]))],
                       NonEmpty)
        ELSE fromSentences
      goals == IF Len(fromBullets) = 0 THEN <<GenericGoal>> ELSE fromBullets
  IN Slice(goals, 0, 5)

\* extractGoals: the lines when there are at least two, else (or when every
\* line was only a bullet mark) the first five sentences, untrimmed, else the
\* generic goal; at most five goals
ExtractGoals(userGoals) ==
  LET sentences == SelectSeq(Split(userGoals, SentenceEnds), NonBlank)
      bulletPoints == SelectSeq(Split(userGoals, LineEnds), NonBlank)
      fromBullets ==
        IF Len(bulletPoints) > 1
        THEN SelectSeq([i \in 1..Len(bulletPoints) |-> Trim(StripBullet(bulletPoints[i]))],
                       NonEmpty)
        ELSE <<>>
      fromSentences ==
        IF Len(fromBullets) = 0 /\ Len(sentences) > 0
        THEN Slice(sentences, 0, 5)
        ELSE fromBullets
      goals == IF Len(fromSentences) = 0 THEN <<GenericGoal>> ELSE fromSentences
  IN Slice(goals, 0, 5)

ResearchAndPlan ==
  <<"R", "e", "s", "e", "a", "r", "c", "h", " ", "a", "n", "d", " ", "p", "l", "a", "n",
     " ">>
StartWorkingOn ==
  <<"S", "t", "a", "r", "t", " ", "w", "o", "r", "k", "i", "n", "g", " ", "o", "n", " ">>
MakeProgressOn ==
  <<"M", "a", "k", "e", " ", "p", "r", "o", "g", "r", "e", "s", "s", " ", "o", "n", " ">>
CompletePrefix ==
  <<"C", "o", "m", "p", "l", "e", "t", "e", " ">>
MilestoneSuffix ==
  <<" ", "m", "i", "l", "e", "s", "t", "o", "n", "e">>
ReviewAndFinalize ==
  <<"R", "e", "v", "i", "e", "w", " ", "a", "n", "d", " ", "f", "i", "n", "a", "l", "i",
     "z", "e", " ">>

\* the five task templates of generateTasksForGoal
TaskTemplates(goal) ==
  LET lower == LowerCaseOf(goal)
  IN << ResearchAndPlan \o lower,
        StartWorkingOn \o lower,
        MakeProgressOn \o lower,
        CompletePrefix \o lower \o MilestoneSuffix,
        ReviewAndFinalize \o lower >>

\* generateTasksForGoal: the first three templates; index is the 0-based
\* position of the callback, and the due date is the day number of
\* today + (weekNumber - 1) * 7 + index * 2
GenerateTasksForGoal(goal, weekNumber, today) ==
  LET first == Slice(TaskTemplates(goal), 0, 3)
  IN [ i \in 1..Len(first) |->
         LET index == i - 1
         IN [ title |-> first[i],
              priority |-> IF index = 0 THEN "high"
                           ELSE IF index = 1 THEN "medium" ELSE "low",
              dueDate |-> today + (weekNumber - 1) * 7 + index * 2 ] ]

GoalBasedOnYourInput ==
  <<"G", "o", "a", "l", " ", "b", "a", "s", "e", "d", " ", "o", "n", " ", "y", "o", "u",
     "r", " ", "i", "n", "p", "u", "t", ":", " ">>

\* generatePlanFallback on a string: nothing in the try block throws
GeneratePlanFallback(userGoals, today) ==
  LET goals == ExtractGoals(userGoals)
  IN [ success |-> TRUE,
       data |-> [ goals |->
                    [ i \in 1..Len(goals) |->
                        [ title |-> goals[i],
                          description |-> GoalBasedOnYourInput \o goals[i],
                          category |-> "personal",
                          tasks |-> GenerateTasksForGoal(goals[i], i, today) ] ] ],
       fallbackUsed |-> TRUE,
       message |-> "AI service unavailable - Generated template plan based on your goals" ]

\* the texts given as userGoals: every text of at most MaxTextLen characters
\* over a letter, a space, a line end, a sentence end and a bullet mark, and
\* three longer ones
RunReadText ==
  <<"R", "u", "n", " ", "5", "k", "\n", "R", "e", "a", "d", " ", "b", "o", "o", "k", "s">>
RunReadBullets ==
  <<"-", " ", "R", "u", "n", " ", "5", "k", "\n", "-", " ", "R", "e", "a", "d", " ", "b",
     "o", "o", "k", "s">>
RunReadSentences ==
  <<"R", "u", "n", " ", "5", "k", ".", " ", "R", "e", "a", "d", " ", "b", "o", "o", "k",
     "s", ".">>

TextAlphabet == {"R", " ", "\n", ".", "-"}

Texts ==
  UNION { [1..n -> TextAlphabet] : n \in 0..MaxTextLen }
    \cup {RunReadText, RunReadBullets, RunReadSentences}

\* a first invocation, on day today
InvokePlanFallback(userGoals, today) ==
  /\ fallbackRun.pc = "idle"
  /\ fallbackRun' = [ pc |-> "once", userGoals |-> userGoals, today |-> today,
                      result |-> GeneratePlanFallback(userGoals, today) ]

\* a second invocation with the same text, on the same or a later day
InvokePlanFallbackAgain(today) ==
  /\ fallbackRun.pc = "once"
  /\ today >= fallbackRun.today
  /\ fallbackRun' = [ pc |-> "twice", userGoals |-> fallbackRun.userGoals,
                      today |-> fallbackRun.today, result |-> fallbackRun.result,
                      todayAgain |-> today,
                      resultAgain |-> GeneratePlanFallback(fallbackRun.userGoals, today) ]

FallbackIdle == [pc |-> "idle"]

(***************************************************************************)
(* SimpleCache.generateKey on parameter objects built in different orders  *)
(***************************************************************************)
ParamNames == {"a", "b", "currentMonth", "userGoals"}
ParamValues == {Str(<<"1">>), Str(<<"2">>), Undefined_}
KeyPrefixes == {"p", "plan"}

\* the objects of at most MaxParams properties: names are distinct, in any
\* insertion order
ParamObjects ==
  UNION { { q \in [1..n -> ParamNames \X ParamValues] :
              \A i, j \in 1..n : q[i][1] = q[j][1] => i = j } : n \in 0..MaxParams }

\* the same name/value pairs
SamePairs(p, q) ==
  /\ Len(p) = Len(q)
  /\ {p[i] : i \in 1..Len(p)} = {q[i] : i \in 1..Len(q)}

KeyIdle == [pc |-> "idle"]

\* generateKey(prefix, params)
InvokeGenerateKey(prefix, params) ==
  /\ keyRun.pc = "idle"
  /\ keyRun' = [ pc |-> "once", prefix |-> prefix, params |-> params,
                 key |-> GenerateKey(prefix, params) ]

\* generateKey with the same prefix and an object of the same pairs
InvokeGenerateKeyAgain(params) ==
  /\ keyRun.pc = "once"
  /\ SamePairs(params, keyRun.params)
  /\ keyRun' = [ pc |-> "twice", prefix |-> keyRun.prefix, params |-> keyRun.params,
                 key |-> keyRun.key, paramsAgain |-> params,
                 keyAgain |-> GenerateKey(keyRun.prefix, params) ]

InitPureVars ==
  /\ transform = TransformIdle
  /\ fallbackRun = FallbackIdle
  /\ keyRun = KeyIdle

vars == <<cacheVars, limiterVars, retryVars, applyVars, genVars, routeVars, raceVars, pureVars, timerVars, parallelVars, lifeVars>>

InitCache == InitCacheVars /\ InitLimiterVars /\ InitRetryVars /\ InitApplyVars /\ InitGenVars /\ InitRouteVars /\ InitRaceVars /\ InitPureVars /\ InitLifeVars /\ InitTimerVars /\ InitParallelVars

NextCache ==
  \/ \E k \in CacheKeys : CacheGet(k) /\ UNCHANGED notCacheVars
  \/ \E k \in CacheKeys, v \in CacheValues, t \in 1..MaxTtl :
       CacheSet(k, v, t) /\ UNCHANGED notCacheVars
  \/ \E k \in CacheKeys : CacheDelete(k) /\ UNCHANGED notCacheVars
  \/ CacheClear /\ UNCHANGED notCacheVars
  \/ CacheCleanup /\ UNCHANGED notCacheVars
  \/ CacheTick /\ UNCHANGED notCacheVars

SpecCache == InitCache /\ [][NextCache]_vars

(***************************************************************************)
(* C2 -- cache TTL                                                         *)
(***************************************************************************)
\* the last get() read a key whose last set() was not undone by delete/clear
ReadOfSetKey == lastGet.key # None /\ lastGet.set # NoEntry

\* C2 (as stated): a get() of a key set at t0 with ttl T returns the stored
\* value when t - t0 < T and returns absent when t - t0 >= T, the read at
\* exactly t0 + T included; the clock counts from the latest set().
C2_AsStated ==
  ReadOfSetKey =>
    /\ (lastGet.at - lastGet.set.timestamp < lastGet.set.ttl
          => lastGet.result = lastGet.set.data)
    /\ (lastGet.at - lastGet.set.timestamp >= lastGet.set.ttl
          => lastGet.result = None)

\* C2 (amended): a get() of a key set at t0 with ttl T returns the stored
\* value of the latest set() for every read with t - t0 <= T (the read at
\* exactly t0 + T included) and returns absent for every read with
\* t - t0 > T; a later set() replaces the value and restarts the clock.
C2_CacheTtl ==
  ReadOfSetKey =>
    /\ (lastGet.at - lastGet.set.timestamp <= lastGet.set.ttl
          => lastGet.result = lastGet.set.data)
    /\ (lastGet.at - lastGet.set.timestamp > lastGet.set.ttl
          => lastGet.result = None)

\* a read exactly at t0 + T (T > 0) of a key that was set twice returned the
\* value of the second set()
C2_Witness ==
  /\ ReadOfSetKey
  /\ lastGet.set.ttl > 0
  /\ lastGet.set.timestamp > 0
  /\ lastGet.at - lastGet.set.timestamp = lastGet.set.ttl
  /\ lastGet.result = lastGet.set.data

(***************************************************************************)
(* Specification of the rate limiter                                       *)
(***************************************************************************)
InitLimiter == InitCacheVars /\ InitLimiterVars /\ InitRetryVars /\ InitApplyVars /\ InitGenVars /\ InitRouteVars /\ InitRaceVars /\ InitPureVars /\ InitLifeVars /\ InitTimerVars /\ InitParallelVars

NextLimiter ==
  \/ \E u \in Users, k \in Kinds : CheckLimit(u, k) /\ UNCHANGED notLimiterVars
  \/ \E u \in Users, k \in Kinds : RecordUsage(u, k) /\ UNCHANGED notLimiterVars
  \/ ResetDailyUsage /\ UNCHANGED notLimiterVars
  \/ ResetMonthlyUsage /\ UNCHANGED notLimiterVars
  \/ \E u \in Users, p \in LimitOverrides : SetUserLimits(u, p) /\ UNCHANGED notLimiterVars

SpecLimiter == InitLimiter /\ [][NextLimiter]_vars

(***************************************************************************)
(* C3 -- rate-limit conjunction                                            *)
(***************************************************************************)
\* C3: whenever checkLimit(user, kind) returns, allowed is true iff the
\* user's daily total is below the daily limit AND the monthly total is below
\* the monthly limit AND the kind's daily count is below the kind's cap.
C3_RateLimitConjunction ==
  lastCheck # NoCheck =>
    LET u == lastCheck.user
        k == lastCheck.endpoint
    IN lastCheck.allowed <=>
         /\ dailyUsage[u]["plan"] + dailyUsage[u]["briefing"]
              + dailyUsage[u]["reschedule"] < userLimits[u].daily
         /\ monthlyUsage[u] < userLimits[u].monthly
         /\ dailyUsage[u][k] < userLimits[u][k]

\* the example of the claim: with the default limits (daily 20, plan 5) and 5
\* plan usages recorded in the day, checkLimit(user, plan) is not allowed
\* although the daily total is only 5
C3_Witness ==
  /\ lastCheck # NoCheck
  /\ lastCheck.endpoint = "plan"
  /\ userLimits[lastCheck.user] = DEFAULT_RATE_LIMITS
  /\ dailyUsage[lastCheck.user] = [k \in Kinds |-> IF k = "plan" THEN 5 ELSE 0]
  /\ monthlyUsage[lastCheck.user] = 5
  /\ ~lastCheck.allowed

(***************************************************************************)
(* C24 -- the resetTime of a denial                                        *)
(***************************************************************************)
\* the request was denied and a ceiling counted per day is at its limit: the
\* daily total or the daily count of the kind
DeniedByDailyCeiling ==
  LET u == lastCheck.user
      k == lastCheck.endpoint
  IN /\ ~lastCheck.allowed
     /\ \/ TotalDailyUsage(dailyUsage, u) >= userLimits[u].daily
        \/ dailyUsage[u][k] >= userLimits[u][k]

\* C24 as stated: whenever checkLimit denies a request because a daily
\* ceiling is the blocking one, the returned resetTime is the next local
\* midnight; in every other case it is 00:00 on the first day of the next
\* month.
C24_ResetTimeSelection ==
  lastCheck # NoCheck =>
    lastCheck.resetTime =
      IF DeniedByDailyCeiling THEN "nextMidnight" ELSE "firstOfNextMonth"


(***************************************************************************)
(* The limiter of one user with the reset timers and the wall clock        *)
(***************************************************************************)
NextRollover ==
  \/ CheckLimit("u1", "plan") /\ UNCHANGED <<notLimiterVars>>
  \/ RecordUsage("u1", "plan") /\ UNCHANGED <<notLimiterVars>>
  \/ \E p \in LimitOverrides : SetUserLimits("u1", p) /\ UNCHANGED <<notLimiterVars>>
  \/ DailyTimerFires
       /\ UNCHANGED <<cacheVars, retryVars, applyVars, genVars, routeVars, raceVars,
                      pureVars, lifeVars, parallelVars>>
  \/ MonthlyTimerFires
       /\ UNCHANGED <<cacheVars, retryVars, applyVars, genVars, routeVars, raceVars,
                      pureVars, lifeVars, parallelVars>>
  \/ Midnight
       /\ UNCHANGED <<cacheVars, retryVars, applyVars, genVars, routeVars, raceVars,
                      pureVars, lifeVars, parallelVars>>

\* the event loop runs a timer that is due, and time passes
SpecRollover ==
  /\ InitLimiter
  /\ [][NextRollover]_vars
  /\ WF_vars(DailyTimerFires)
  /\ WF_vars(MonthlyTimerFires)
  /\ WF_vars(Midnight)

(***************************************************************************)
(* C25 -- self-rescheduling rollover                                       *)
(***************************************************************************)
DailyFired == rollover'.dailyFirings # rollover.dailyFirings
MonthlyFired == rollover'.monthlyFirings # rollover.monthlyFirings

\* u is denied for kind k, and neither the monthly total nor anything else
\* than a count of the day is at its limit
BlockedOnlyByDaily(u, k) ==
  /\ ~CheckLimitStatus(userLimits, dailyUsage, monthlyUsage, u, k).allowed
  /\ monthlyUsage[u] < LimitsOf(userLimits, u).monthly

\* C25 as stated: each firing of the daily timer clears every user's
\* per-kind daily counters, leaving monthly counters and custom limits
\* unchanged, and re-arms itself for the next midnight; each firing of the
\* monthly timer clears every user's monthly counter, leaving daily counters
\* unchanged, and re-arms itself for the first of the next month; hence both
\* resets fire at every subsequent boundary, infinitely often, and a user
\* blocked only by a daily ceiling is allowed again after the next daily
\* firing.
C25_SelfReschedulingRollover ==
  /\ [][ DailyFired =>
           /\ \A u \in Users, k \in Kinds : dailyUsage'[u][k] = 0
           /\ monthlyUsage' = monthlyUsage
           /\ userLimits' = userLimits
           /\ rollover'.daily = MsUntilMidnight
           /\ \A u \in Users, k \in Kinds :
                BlockedOnlyByDaily(u, k) =>
                  CheckLimitStatus(userLimits', dailyUsage', monthlyUsage', u, k).allowed ]_vars
  /\ [][ MonthlyFired =>
           /\ \A u \in Users : monthlyUsage'[u] = 0
           /\ dailyUsage' = dailyUsage
           /\ userLimits' = userLimits
           /\ rollover'.monthly = MsUntilFirst(rollover.day) ]_vars
  /\ []<>rollover.dailyAtBoundary
  /\ []<>rollover.monthlyAtBoundary


(***************************************************************************)
(* Specification of the retry engine                                       *)
(***************************************************************************)
InitRetry == InitCacheVars /\ InitLimiterVars /\ InitRetryVars /\ InitApplyVars /\ InitGenVars /\ InitRouteVars /\ InitRaceVars /\ InitPureVars /\ InitLifeVars /\ InitTimerVars /\ InitParallelVars

NextRetry ==
  \/ \E o \in RetryOptionArgs : Execute(o) /\ UNCHANGED notRetryVars
  \/ \E t \in {"rate-limit", "ai-service", "unknown"} :
       ExecuteWithStrategy(t, EmptyOptions) /\ UNCHANGED notRetryVars
  \/ FnResolves("text") /\ UNCHANGED notRetryVars
  \/ \E m \in ErrorMessages : FnThrows(m) /\ UNCHANGED notRetryVars
  \/ DelayElapses /\ UNCHANGED notRetryVars

SpecRetry == InitRetry /\ [][NextRetry]_vars

(***************************************************************************)
(* Specification of executeParallel                                        *)
(***************************************************************************)
NextParallel ==
  \/ \E n \in 0..MaxParallel, o \in ParallelOptionArgs :
       ExecuteParallel(n, o) /\ UNCHANGED notParallelVars
  \/ \E i \in 1..MaxParallel :
       OperationResolves(i, "text") /\ UNCHANGED notParallelVars
  \/ \E i \in 1..MaxParallel, m \in OperationErrors :
       OperationThrows(i, m) /\ UNCHANGED notParallelVars
  \/ \E i \in 1..MaxParallel :
       OperationDelayElapses(i) /\ UNCHANGED notParallelVars
  \/ PromiseAllSettles /\ UNCHANGED notParallelVars

SpecParallel == InitRetry /\ [][NextParallel]_vars

(***************************************************************************)
(* C26 -- executeParallel has no fail-fast                                 *)
(***************************************************************************)
LastOf(q) == q[Len(q)]

\* the outcome of a loop read from the loop's own history alone: it succeeded
\* iff its last call did not throw, and a failure carries the last error thrown
OwnOutcome(loop, outcome) ==
  /\ loop.pc = "done"
  /\ loop.opts.maxAttempts >= 1 => loop.invocations >= 1
  /\ outcome.success <=> loop.invocations > Len(loop.thrown)
  /\ outcome.success => outcome.data = "text"
  /\ (~outcome.success /\ loop.thrown # <<>>) => outcome.error = LastOf(loop.thrown)

\* C26: when executeParallel returns, every operation's retry loop has run
\* to completion, the returned list has the length of the input, and element
\* i is the outcome of operation i, whatever the other operations did: a
\* failure is an outcome with the last error raised, never a rejection that
\* discards the others.
C26_NoFailFast ==
  parallel.pc = "done" =>
    /\ Len(parallel.results) = Len(parallel.loops)
    /\ \A i \in 1..Len(parallel.loops) :
         /\ parallel.results[i] = parallel.loops[i].result
         /\ OwnOutcome(parallel.loops[i], parallel.results[i])

C26_Witness ==
  /\ parallel.pc = "done"
  /\ Len(parallel.loops) = 2
  /\ ~parallel.results[1].success
  /\ parallel.results[1].error = <<"request", "timeout">>
  /\ parallel.loops[1].invocations = 3
  /\ parallel.results[2].success
  /\ parallel.loops[2].invocations = 2

RetryRunning == retry.pc \in {"call", "sleep", "done"}

RECURSIVE SeqSum(_)
SeqSum(q) == IF q = <<>> THEN 0 ELSE Head(q) + SeqSum(Tail(q))

(***************************************************************************)
(* C8 -- retry backoff                                                     *)
(***************************************************************************)
\* C8: the sleep taken after failed attempt n (n < maxAttempts) is
\* min(baseDelay * backoffFactor^(n-1), maxDelay), no sleep follows the last
\* attempt, and totalDelay is the sum of the sleeps taken; with the default
\* options (3, 1000, 2, 10000) and two failed attempts, totalDelay before the
\* 3rd attempt is exactly 3000.
C8_RetryBackoff ==
  RetryRunning =>
    /\ \A n \in 1..Len(retry.sleeps) :
         /\ n < retry.opts.maxAttempts
         /\ LET d == retry.opts.baseDelay * Pow(retry.opts.backoffFactor, n - 1)
            IN retry.sleeps[n] = IF d < retry.opts.maxDelay THEN d ELSE retry.opts.maxDelay
    /\ Len(retry.sleeps) =
         IF retry.pc = "done" THEN Max2(retry.invocations - 1, 0) ELSE retry.invocations
    /\ retry.totalDelay = SeqSum(retry.sleeps)
    /\ retry.pc = "done" /\ retry.opts.maxAttempts >= 1 =>
         retry.result.totalDelay = SeqSum(retry.sleeps)
    /\ (retry.opts = DEFAULT_OPTIONS /\ retry.pc = "call" /\ retry.attempt = 3)
         => retry.totalDelay = 3000

\* the default options, two failed attempts, the third attempt about to run
\* after sleeps of 1000 and 2000
C8_Witness ==
  /\ retry.pc = "call"
  /\ retry.opts = DEFAULT_OPTIONS
  /\ retry.attempt = 3
  /\ retry.sleeps = <<1000, 2000>>

(***************************************************************************)
(* C9 -- non-retryable short-circuit                                       *)
(***************************************************************************)
\* the thrown messages that contain a non-retryable marker ("invalid api key",
\* "unauthorized") in some letter case
NonRetryableThrown ==
  { <<"401", "Invalid", "API", "Key", "provided">>, <<"Unauthorized">> }

\* C9: when the operation fails with a non-retryable message, execute, for
\* every maxAttempts >= 1, calls the operation exactly once, takes no delay
\* (totalDelay = 0) and returns a failure carrying that error.
C9_NonRetryableShortCircuit ==
  (RetryRunning /\ retry.thrown # <<>> /\ retry.thrown[1] \in NonRetryableThrown) =>
    /\ retry.pc = "done"
    /\ retry.invocations = 1
    /\ retry.sleeps = <<>>
    /\ retry.result.success = FALSE
    /\ retry.result.totalDelay = 0
    /\ retry.result.error = retry.thrown[1]

\* "401 Invalid API Key provided" thrown by the first call under maxAttempts = 3
C9_Witness ==
  /\ retry.pc = "done"
  /\ retry.opts.maxAttempts = 3
  /\ retry.invocations = 1
  /\ retry.result.error = <<"401", "Invalid", "API", "Key", "provided">>

(***************************************************************************)
(* C10 -- the attempts field                                               *)
(***************************************************************************)
\* C10: the attempts field of every RetryOutcome equals the number of times
\* the operation was invoked (k on success at attempt k, maxAttempts on
\* exhaustion, n when a non-retryable error aborts the loop at attempt n).
C10_AttemptsCountInvocations ==
  retry.pc = "done" => retry.result.attempts = retry.invocations


(***************************************************************************)
(* Apply requests handled one at a time                                    *)
(***************************************************************************)
InitApply == InitCacheVars /\ InitLimiterVars /\ InitRetryVars /\ InitApplyVars /\ InitGenVars /\ InitRouteVars /\ InitRaceVars /\ InitPureVars /\ InitLifeVars /\ InitTimerVars /\ InitParallelVars

NextApply ==
  \/ ReceiveRequest("h1") /\ UNCHANGED notApplyVars
  \/ GetSuggestionById("h1") /\ UNCHANGED notApplyVars
  \/ ApplicatorCall("h1") /\ UNCHANGED notApplyVars
  \/ MarkAsApplied("h1") /\ UNCHANGED notApplyVars
  \/ Respond("h1") /\ UNCHANGED notApplyVars

SpecApply == InitApply /\ [][NextApply]_vars


\* the applicator calls whose result a handler holds
Calls == { applyReq[h].call : h \in {g \in Handlers : applyReq[g].call # NoCall} }

\* the titles of the goals of goalList, from goal g on, whose index is in keep
RECURSIVE TitlesOf(_, _, _)
TitlesOf(goalList, keep, g) ==
  IF g > Len(goalList) THEN << >>
  ELSE IF g \in keep THEN <<goalList[g].title>> \o TitlesOf(goalList, keep, g + 1)
  ELSE TitlesOf(goalList, keep, g + 1)

\* a non-dry-run plan apply with applyAll in which no task insert fails
PlanCallWithGoalFailures(c) ==
  /\ c.type = "plan"
  /\ c.options.applyAll
  /\ ~c.options.dryRun
  /\ \A site \in c.fail : site[1] # "task"

FailedGoals(c) == { g \in 1..Len(suggestions[c.sid].content.goals) : <<"goal", g>> \in c.fail }

\* C4: a plan apply (applyAll, not dry run) whose goal insert fails for the set F
\* of goals goes on past every failure: a goal is inserted for every goal not in
\* F, createdGoals is their number, appliedItems is their titles in order,
\* skippedItems is the titles of the goals in F, errors has one entry per goal
\* in F, and success is false iff F is not empty.
C4_PlanPartialFailure ==
  \A c \in Calls :
    PlanCallWithGoalFailures(c) =>
      LET goalList == suggestions[c.sid].content.goals
          all == 1..Len(goalList)
          F == FailedGoals(c)
          made == TitlesOf(goalList, all \ F, 1)
      IN /\ c.res.createdGoals = Cardinality(all \ F)
         /\ c.res.appliedItems = made
         /\ c.res.skippedItems = TitlesOf(goalList, F, 1)
         /\ Len(c.res.errors) = Cardinality(F)
         /\ c.res.success = (F = {})
         /\ Len(c.after.goals) = Len(c.before.goals) + Len(made)
         /\ \A k \in 1..Len(made) :
              c.after.goals[Len(c.before.goals) + k].title = made[k]

\* the example of the claim: three goals, the insert of goal 2 fails
C4_Witness ==
  \E c \in Calls :
    /\ PlanCallWithGoalFailures(c)
    /\ FailedGoals(c) = {2}
    /\ c.res.createdGoals = 2
    /\ c.res.appliedItems = <<"A", "C">>
    /\ c.res.skippedItems = <<"B">>
    /\ Len(c.res.errors) = 1
    /\ ~c.res.success

HypotheticalCount(message) ==
  /\ Len(message) = 3
  /\ message[1] \in {"Dry run: Would create", "Dry run: Would update"}
  /\ message[2] \in Nat

\* C5: an applySuggestion call with dryRun = true on a plan, briefing or
\* reschedule suggestion, previewSuggestion included, executes no store
\* statement: the store after it, and after the handler's later steps, is the
\* store before it, and the returned message states a hypothetical count.
C5_DryRunNoOp ==
  \A c \in Calls :
    (c.options.dryRun /\ c.type \in {"plan", "briefing", "reschedule"}) =>
      /\ c.after = c.before
      /\ store = c.before
      /\ HypotheticalCount(c.res.message)

\* a preview, made after the store has been written to, leaves it as it was
C5_Witness ==
  /\ applyReq["h1"].kind = "preview"
  /\ applyReq["h1"].pc = "done"
  /\ applyReq["h1"].call # NoCall
  /\ applyReq["h1"].call.type = "reschedule"
  /\ applyReq["h1"].call.res.message = <<"Dry run: Would update", 3, "tasks">>
  /\ store.writes > 0

\* C6: the apply and batch-apply handlers invoke markAsApplied only for a
\* request that is not a dry run and after an applicator result with success.
C6_MarkOnlyOnSuccess ==
  \A h \in Handlers :
    \A i \in 1..Len(applyReq[h].marks) :
      /\ ~applyReq[h].marks[i].dryRun
      /\ applyReq[h].marks[i].success
      /\ applyReq[h].kind \in {"apply", "batch"}

\* a batch marks its second suggestion after the applicator succeeded on it
C6_Witness ==
  /\ applyReq["h1"].kind = "batch"
  /\ applyReq["h1"].idx = 2
  /\ Len(applyReq["h1"].marks) = 1
  /\ applyReq["h1"].marks[1].suggestionId = "s2"
  /\ suggestions["s2"].isApplied

\* C7: every result applySuggestion returns has success = true iff its errors
\* list is empty, whatever the kind, the options and the failing operations.
C7_SuccessIffNoErrors ==
  \A c \in Calls : c.res.success <=> (Len(c.res.errors) = 0)

\* a briefing applied with two failing updates
C7_Witness ==
  \E c \in Calls :
    /\ c.type = "briefing"
    /\ ~c.options.dryRun
    /\ Len(c.res.errors) = 2
    /\ ~c.res.success
    /\ c.res.updatedTasks = 1


(***************************************************************************)
(* C16 -- the apply result as a record of the store                        *)
(***************************************************************************)
\* the call inserted a Goal row titled as goal g of the plan and one Task row
\* for every task listed under it
GoalAndTasksPersisted(c, g) ==
  LET goalData == suggestions[c.sid].content.goals[g]
  IN \E k \in (Len(c.before.goals) + 1)..Len(c.after.goals) :
       /\ c.after.goals[k].title = goalData.title
       /\ Cardinality({ j \in 1..Len(c.after.tasks) : c.after.tasks[j].goalId = k })
            = Len(goalData.tasks)

\* C16 as stated: after a non-dry-run plan apply under any pattern of
\* goal-insert and task-insert failures, no goal title is in both appliedItems
\* and skippedItems, every non-excluded goal title is in exactly one of them,
\* and a title is in appliedItems iff its Goal row and all of its listed Task
\* rows were persisted.
C16_ExactRecord ==
  \A c \in Calls :
    (c.type = "plan" /\ ~c.options.dryRun) =>
      \A g \in 1..Len(suggestions[c.sid].content.goals) :
        LET title == suggestions[c.sid].content.goals[g].title
            applied == SeqIncludes(c.res.appliedItems, title)
            skipped == SeqIncludes(c.res.skippedItems, title)
        IN /\ ~(applied /\ skipped)
           /\ ~Excluded(c.options, title) => (applied \/ skipped)
           /\ applied <=> GoalAndTasksPersisted(c, g)


(***************************************************************************)
(* C17 -- no mid-batch abort                                               *)
(***************************************************************************)
\* the store operations of item g / i of the suggestion throw when reached
PlanGoalFails(c, g) ==
  \/ <<"goal", g>> \in c.fail
  \/ \E j \in 1..Len(suggestions[c.sid].content.goals[g].tasks) : <<"task", g, j>> \in c.fail

BriefingTaskFails(c, i) ==
  LET taskUpdate == suggestions[c.sid].content.todaysTasks[i]
  IN IF taskUpdate.taskId # "" THEN <<"update", i>> \in c.fail
     ELSE \/ <<"find", i>> \in c.fail
          \/ /\ MatchingTask(c.before, suggestions[c.sid].userId, taskUpdate.title) # ""
             /\ <<"update", i>> \in c.fail

RescheduleTaskFails(c, i) ==
  /\ suggestions[c.sid].content.affectedTasks[i].taskId # ""
  /\ <<"rtask", i>> \in c.fail

RescheduleEventFails(c, i) ==
  /\ suggestions[c.sid].content.affectedEvents[i].eventId # ""
  /\ <<"revent", i>> \in c.fail

\* the task of the store with this id
TaskById(st, id) == st.tasks[CHOOSE k \in 1..Len(st.tasks) : st.tasks[k].id = id]
EventById(st, id) == st.events[CHOOSE k \in 1..Len(st.events) : st.events[k].id = id]

NoPlanAbort(c) ==
  LET goalList == suggestions[c.sid].content.goals
      tried == { g \in 1..Len(goalList) : ~Excluded(c.options, goalList[g].title) }
  IN /\ Len(c.res.errors) = Cardinality({ g \in tried : PlanGoalFails(c, g) })
     /\ \A g \in tried :
          IF PlanGoalFails(c, g)
          THEN SeqIncludes(c.res.skippedItems, goalList[g].title)
          ELSE /\ SeqIncludes(c.res.appliedItems, goalList[g].title)
               /\ GoalAndTasksPersisted(c, g)

NoBriefingAbort(c) ==
  LET list == suggestions[c.sid].content.todaysTasks
      tried == { i \in 1..Len(list) : ~Excluded(c.options, list[i].taskId) }
  IN /\ Len(c.res.errors) = Cardinality({ i \in tried : BriefingTaskFails(c, i) })
     /\ \A i \in tried :
          IF BriefingTaskFails(c, i)
          THEN SeqIncludes(c.res.skippedItems, list[i].title)
          ELSE IF list[i].taskId # ""
          THEN /\ SeqIncludes(c.res.appliedItems, list[i].taskId)
               /\ TaskById(c.after, list[i].taskId).priority = list[i].priority
          ELSE IF MatchingTask(c.before, suggestions[c.sid].userId, list[i].title) # ""
          THEN SeqIncludes(c.res.appliedItems, list[i].title)
          ELSE SeqIncludes(c.res.skippedItems, list[i].title)

NoRescheduleAbort(c) ==
  LET taskList == suggestions[c.sid].content.affectedTasks
      eventList == suggestions[c.sid].content.affectedEvents
      triedTasks == { i \in 1..Len(taskList) : ~Excluded(c.options, taskList[i].taskId) }
      triedEvents == { i \in 1..Len(eventList) : ~Excluded(c.options, eventList[i].eventId) }
  IN /\ Len(c.res.errors) =
          Cardinality({ i \in triedTasks : RescheduleTaskFails(c, i) })
            + Cardinality({ i \in triedEvents : RescheduleEventFails(c, i) })
     /\ \A i \in triedTasks :
          IF RescheduleTaskFails(c, i)
          THEN SeqIncludes(c.res.skippedItems, taskList[i].taskId)
          ELSE IF taskList[i].taskId # ""
          THEN /\ SeqIncludes(c.res.appliedItems, taskList[i].taskId)
               /\ TaskById(c.after, taskList[i].taskId).dueDate
                    = OrUnknown(taskList[i].suggestedDueDate, "null")
          ELSE SeqIncludes(c.res.skippedItems, "Unknown task")
     /\ \A i \in triedEvents :
          IF RescheduleEventFails(c, i)
          THEN SeqIncludes(c.res.skippedItems, eventList[i].eventId)
          ELSE IF eventList[i].eventId # ""
          THEN /\ SeqIncludes(c.res.appliedItems, eventList[i].eventId)
               /\ EventById(c.after, eventList[i].eventId).startTime
                    = eventList[i].suggestedStartTime
          ELSE SeqIncludes(c.res.skippedItems, "Unknown event")

\* C17: for every kind and every pattern of per-item store failures,
\* applySuggestion returns a result rather than throwing, and after a failure
\* on an item every later non-excluded item is still attempted: each failing
\* item leaves one error, each other item its effect (plan goals, briefing
\* tasks, reschedule tasks and then reschedule events).
C17_NoMidBatchAbort ==
  \A c \in Calls :
    /\ c.res.success \in BOOLEAN
    /\ c.res.success = (c.res.errors = << >>)
    /\ ~c.options.dryRun =>
         CASE c.type = "plan" -> NoPlanAbort(c)
           [] c.type = "briefing" -> NoBriefingAbort(c)
           [] c.type = "reschedule" -> NoRescheduleAbort(c)
           [] OTHER -> c.res = FailedResult("Unknown suggestion type")

\* a reschedule whose first task update fails: the second task and the first
\* event are still updated
C17_Witness ==
  \E c \in Calls :
    /\ c.type = "reschedule"
    /\ ~c.options.dryRun
    /\ c.options.applyAll
    /\ c.fail = {<<"rtask", 1>>}
    /\ c.res.errors = << <<"Failed to reschedule task">> >>
    /\ c.res.appliedItems = <<"t2", "e1">>
    /\ c.res.updatedTasks = 1
    /\ c.res.updatedEvents = 1

(***************************************************************************)
(* C27 -- dry-run counts                                                   *)
(***************************************************************************)
\* the number of items applySuggestion creates (plan: goals) or updates
\* (briefing and reschedule: tasks) when it is not a dry run and no store
\* operation fails
RealCount(st, suggestion, options) ==
  LET res == ApplySuggestion(st, suggestion, [options EXCEPT !.dryRun = FALSE], {}).res
  IN IF suggestion.type = "plan" THEN res.createdGoals ELSE res.updatedTasks

\* C27 as stated: for every kind and options value, the count a dry run
\* reports equals the number of items a non-dry-run apply with the same
\* applyAll / selectedItems options creates or updates when no store
\* operation fails; items excluded by selectedItems or lacking an identifier
\* are not counted.
C27_DryRunCountsMatch ==
  \A c \in Calls :
    (c.options.dryRun /\ c.type \in {"plan", "briefing", "reschedule"}) =>
      /\ HypotheticalCount(c.res.message)
      /\ c.res.message[2] = RealCount(c.before, InitialSuggestions[c.sid], c.options)


(***************************************************************************)
(* C28 -- plan selection and ordering                                      *)
(***************************************************************************)
\* the rows a call appended to a table
Appended(before, after) == SubSeq(after, Len(before) + 1, Len(after))

RECURSIVE TaskCount(_, _, _)
TaskCount(goalList, keep, g) ==
  IF g > Len(goalList) THEN 0
  ELSE (IF g \in keep THEN Len(goalList[g].tasks) ELSE 0) + TaskCount(goalList, keep, g + 1)

\* the user's first goal with this title has a task
HasTasks(st, userId, title) ==
  /\ MatchingGoal(st, userId, title) # 0
  /\ \E i \in 1..Len(st.tasks) : st.tasks[i].goalId = MatchingGoal(st, userId, title)

PlanApplied(c) == c.type = "plan" /\ ~c.options.dryRun /\ c.fail = {}

\* C28: in a plan apply that is not a dry run and meets no store failure, a
\* goal is created for exactly the entries not excluded (excluded iff applyAll
\* is false, selectedItems is given and lacks the title), in the order of the
\* plan; excluded titles are in skippedItems; every created task references
\* the goal created just before it, which is the goal of its entry;
\* createdTasks is the sum of the task counts of the created goals; and the
\* progress is recomputed after the inserts of all goals: there is one
\* progress write for each created goal whose title, looked up in the store
\* that holds every new goal and task, finds a goal with tasks.
C28_PlanSelectionAndOrdering ==
  \A c \in Calls :
    PlanApplied(c) =>
      LET goalList == InitialSuggestions[c.sid].content.goals
          excluded == {g \in 1..Len(goalList) :
                         /\ ~c.options.applyAll
                         /\ c.options.hasSelected
                         /\ goalList[g].title \notin c.options.selectedItems}
          kept == (1..Len(goalList)) \ excluded
          newGoals == Appended(c.before.goals, c.after.goals)
          newTasks == Appended(c.before.tasks, c.after.tasks)
          entryOf(title) == CHOOSE g \in kept : goalList[g].title = title
          userId == InitialSuggestions[c.sid].userId
      IN /\ [i \in 1..Len(newGoals) |-> newGoals[i].title] = TitlesOf(goalList, kept, 1)
         /\ c.res.appliedItems = TitlesOf(goalList, kept, 1)
         /\ c.res.skippedItems = TitlesOf(goalList, excluded, 1)
         /\ c.res.createdGoals = Cardinality(kept)
         /\ c.res.createdTasks = TaskCount(goalList, kept, 1)
         /\ Len(newTasks) = c.res.createdTasks
         /\ \A i \in 1..Len(newTasks) :
              /\ newTasks[i].goalId \in (Len(c.before.goals) + 1)..Len(c.after.goals)
              /\ \E j \in 1..Len(goalList[entryOf(c.after.goals[newTasks[i].goalId].title)].tasks) :
                   goalList[entryOf(c.after.goals[newTasks[i].goalId].title)].tasks[j].title
                     = newTasks[i].title
         /\ c.after.writes - c.before.writes =
              c.res.createdGoals + c.res.createdTasks
                + Cardinality({g \in kept : HasTasks(c.after, userId, goalList[g].title)})
         /\ c.res.success /\ c.res.errors = << >>

\* only goal A of the plan A, B, C is selected: one goal and its one task are
\* created, the task references the new goal, B and C are skipped
C28_Witness ==
  \E c \in Calls :
    /\ PlanApplied(c)
    /\ ~c.options.applyAll /\ c.options.hasSelected
    /\ c.res.createdGoals = 1
    /\ c.res.createdTasks = 1
    /\ c.res.skippedItems = <<"B", "C">>
    /\ c.after.tasks[Len(c.after.tasks)].goalId = Len(c.after.goals)
    /\ c.after.goals[Len(c.after.goals)].title = "A"


(***************************************************************************)
(* C29 -- reschedule apply                                                 *)
(***************************************************************************)
Occurrences(q, x) == Cardinality({i \in 1..Len(q) : q[i] = x})

RescheduleApplied(c) == c.type = "reschedule" /\ ~c.options.dryRun

\* C29 as stated: for each non-excluded affected task with an identifier
\* (whose update does not fail), the task's due date is set to the suggested
\* date, or cleared when none is given, and the identifier is added to
\* appliedItems; each affected task or event without an identifier causes no
\* store write and is recorded in skippedItems as "Unknown task" or
\* "Unknown event", without an entry in errors.
C29_RescheduleApply ==
  \A c \in Calls :
    RescheduleApplied(c) =>
      LET content == InitialSuggestions[c.sid].content
          taskList == content.affectedTasks
          eventList == content.affectedEvents
          excluded(id) == /\ ~c.options.applyAll
                          /\ c.options.hasSelected
                          /\ id \notin c.options.selectedItems
          updatedT == {i \in 1..Len(taskList) :
                         /\ taskList[i].taskId # ""
                         /\ ~excluded(taskList[i].taskId)
                         /\ <<"rtask", i>> \notin c.fail}
          updatedE == {i \in 1..Len(eventList) :
                         /\ eventList[i].eventId # ""
                         /\ ~excluded(eventList[i].eventId)
                         /\ <<"revent", i>> \notin c.fail}
          failed == {i \in 1..Len(taskList) :
                       /\ taskList[i].taskId # ""
                       /\ ~excluded(taskList[i].taskId)
                       /\ <<"rtask", i>> \in c.fail}
                    \cup {Len(taskList) + i : i \in {j \in 1..Len(eventList) :
                       /\ eventList[j].eventId # ""
                       /\ ~excluded(eventList[j].eventId)
                       /\ <<"revent", j>> \in c.fail}}
      IN /\ \A i \in updatedT :
              /\ SeqIncludes(c.res.appliedItems, taskList[i].taskId)
              /\ \A k \in 1..Len(c.after.tasks) :
                   c.after.tasks[k].id = taskList[i].taskId =>
                     c.after.tasks[k].dueDate =
                       IF taskList[i].suggestedDueDate # ""
                       THEN taskList[i].suggestedDueDate ELSE "null"
         /\ Occurrences(c.res.skippedItems, "Unknown task")
              = Cardinality({i \in 1..Len(taskList) : taskList[i].taskId = ""})
         /\ Occurrences(c.res.skippedItems, "Unknown event")
              = Cardinality({i \in 1..Len(eventList) : eventList[i].eventId = ""})
         /\ c.after.writes - c.before.writes = Cardinality(updatedT) + Cardinality(updatedE)
         /\ Len(c.res.errors) = Cardinality(failed)


(***************************************************************************)
(* C30 -- unknown kind                                                     *)
(***************************************************************************)
\* the handlers whose applicator call was given a suggestion of no known kind
UnknownKindHandlers ==
  {h \in Handlers : /\ applyReq[h].call # NoCall
                    /\ applyReq[h].call.type \notin {"plan", "briefing", "reschedule"}}

\* the applicator wrote nothing and the suggestion is not marked applied
UnknownKindWritesNothing(h) ==
  LET c == applyReq[h].call
  IN /\ c.after = c.before
     /\ \A i \in 1..Len(applyReq[h].marks) : applyReq[h].marks[i].suggestionId # c.sid
     /\ ~suggestions[c.sid].isApplied

\* C30 as stated: applySuggestion on a suggestion of unknown kind performs no
\* store write and raises the failure to its caller as an error, so the
\* handler marks nothing and its request ends with the error.
C30_AsStated ==
  \A h \in UnknownKindHandlers :
    /\ UnknownKindWritesNothing(h)
    /\ (applyReq[h].pc = "done" /\ applyReq[h].kind # "batch") =>
         applyReq[h].response.status = "error"

\* C30: applySuggestion on a suggestion of unknown kind performs no store
\* write and returns, without throwing, the failure result (success false,
\* message "Failed to apply suggestion: Unknown suggestion type", that one
\* error, no applied and no skipped items); its caller therefore never marks
\* the suggestion applied, and the apply and preview handlers answer
\* normally with that result.
C30_UnknownKindFails ==
  \A h \in UnknownKindHandlers :
    LET c == applyReq[h].call
    IN /\ UnknownKindWritesNothing(h)
       /\ ~c.res.success
       /\ c.res.message = <<"Failed to apply suggestion", "Unknown suggestion type">>
       /\ c.res.errors = << "Unknown suggestion type" >>
       /\ c.res.appliedItems = << >> /\ c.res.skippedItems = << >>
       /\ (applyReq[h].pc = "done" /\ applyReq[h].kind # "batch") =>
            /\ applyReq[h].response.status = "ok"
            /\ applyReq[h].response.result = c.res

\* a request that is no dry run applied the suggestion of kind "insight" and
\* was answered with the failure result
C30_Witness ==
  /\ "h1" \in UnknownKindHandlers
  /\ applyReq["h1"].kind = "apply"
  /\ ~DryRunOf(applyReq["h1"].options)
  /\ applyReq["h1"].pc = "done"
  /\ applyReq["h1"].response.status = "ok"
  /\ ~applyReq["h1"].response.result.success


(***************************************************************************)
(* C35 -- marked applied only if something was applied                     *)
(***************************************************************************)
\* the handlers about to run markAsApplied for the call they hold
AboutToMark == {h \in Handlers : applyReq[h].pc = "mark"}

\* C35 as stated: whenever an apply request that is no dry run leads to
\* markAsApplied, the result's appliedItems is non-empty and skippedItems
\* holds only items excluded by selectedItems; a suggestion whose apply
\* changed no record is not marked applied.
C35_MarkedOnlyIfApplied ==
  \A h \in AboutToMark :
    LET c == applyReq[h].call
    IN /\ c.res.appliedItems # << >>
       /\ c.after # c.before
       /\ \A i \in 1..Len(c.res.skippedItems) :
            /\ ~c.options.applyAll
            /\ c.options.hasSelected
            /\ c.res.skippedItems[i] \notin c.options.selectedItems



(***************************************************************************)
(* Generation calls made one after the other                               *)
(***************************************************************************)
InitGen ==
  /\ now = 0
  /\ cache = [k \in GenerateKeys |-> NoEntry]
  /\ lastSet = [k \in CacheKeys |-> NoEntry]
  /\ lastGet = NoGet
  /\ InitLimiterVars /\ InitRetryVars /\ InitApplyVars /\ InitGenVars /\ InitRouteVars /\ InitRaceVars /\ InitPureVars /\ InitLifeVars /\ InitTimerVars /\ InitParallelVars

NextGen ==
  \/ \E kind \in Kinds, userId \in UserIdArgs :
       \E input \in GenerateInputs(kind) :
          GenerateBegin(kind, input, userId) /\ UNCHANGED <<applyVars, pureVars, timerVars, parallelVars, lifeVars, routeVars, raceVars>>
  \/ \E data \in ProviderContents : ProviderResolves(data) /\ UNCHANGED <<applyVars, pureVars, timerVars, parallelVars, lifeVars, routeVars, raceVars>>
  \/ \E message \in ProviderErrors : ProviderThrows(message) /\ UNCHANGED <<applyVars, pureVars, timerVars, parallelVars, lifeVars, routeVars, raceVars>>
  \/ BackoffElapses /\ UNCHANGED <<applyVars, pureVars, timerVars, parallelVars, lifeVars, routeVars, raceVars>>
  \/ GenerateFinish /\ UNCHANGED <<applyVars, pureVars, timerVars, parallelVars, lifeVars, routeVars, raceVars>>
  \/ GenerateReturn /\ UNCHANGED <<applyVars, pureVars, timerVars, parallelVars, lifeVars, routeVars, raceVars>>
  \/ GenerateTick /\ UNCHANGED <<applyVars, pureVars, timerVars, parallelVars, lifeVars, routeVars, raceVars>>
  \/ CacheCleanup /\ UNCHANGED <<limiterVars, retryVars, applyVars, pureVars, timerVars, parallelVars, lifeVars, genVars, routeVars, raceVars>>
  \/ gen.pc = "idle" /\ SetUserLimits("u1", StrictDailyLimit)
       /\ UNCHANGED <<cacheVars, retryVars, applyVars, pureVars, timerVars, parallelVars, lifeVars, genVars, routeVars, raceVars>>

SpecGen == InitGen /\ [][NextGen]_vars


\* a returned call that repeats, within the TTL of its kind, the parameters of
\* the last call with a userId that succeeded through the model
RepeatsWithinTtl ==
  /\ gen.pc = "done"
  /\ lastModel # NoModelCall
  /\ lastModel.userId # ""
  /\ gen.cacheKey = lastModel.cacheKey
  /\ gen.startedAt - lastModel.at < CACHE_TTL[gen.kind]

\* C1 as stated: across the two calls the provider is invoked exactly once and
\* recordUsage exactly once, and both return the same content.
C1_AsStated ==
  RepeatsWithinTtl =>
    /\ lastModel.providerCalls + gen.providerCalls = 1
    /\ lastModel.recordUsageCalls + gen.recordUsageCalls = 1
    /\ gen.content = lastModel.content

\* C1: the repeated call is served from the cache: it invokes neither the
\* provider nor recordUsage and returns the content of the first call, so
\* across the two calls recordUsage is invoked exactly once and the provider
\* only by the first call, once per attempt of its retry loop (1 to 3 times).
C1_SequentialIdempotence ==
  RepeatsWithinTtl =>
    /\ gen.outcome = "cache"
    /\ gen.providerCalls = 0
    /\ gen.recordUsageCalls = 0
    /\ lastModel.recordUsageCalls = 1
    /\ lastModel.providerCalls \in
         1..GetStrategyOptions("ai-service", EmptyOptions).maxAttempts
    /\ gen.content = lastModel.content

\* a reschedule repeated half an hour after a first call that needed a retry
C1_Witness ==
  /\ RepeatsWithinTtl
  /\ gen.kind = "reschedule"
  /\ gen.userId = "u1"
  /\ gen.startedAt = lastModel.at + TickMs
  /\ lastModel.providerCalls = 2
  /\ gen.outcome = "cache"


(***************************************************************************)
(* C11 -- fallback instead of error                                        *)
(***************************************************************************)
\* executeWithStrategy has returned to a generate* call and the call ends in
\* its catch block: the retry result is a failure or JSON.parse rejects the text
EntersCatch ==
  /\ gen.pc = "model"
  /\ retry.pc = "done"
  /\ ~(retry.result.success /\ IsJson(retry.result.data))

\* C11: for every kind, when the model call fails after retries or the model's
\* text fails to parse, a call with a userId returns the fallback content of
\* the kind instead of throwing, and a call without a userId throws.
C11_FallbackInsteadOfError ==
  [][ EntersCatch /\ gen' # gen =>
        IF gen.userId # ""
        THEN gen'.pc = "done" /\ gen'.outcome = "fallback"
             /\ gen'.content = FallbackContent(gen.kind)
        ELSE gen'.pc = "done" /\ gen'.outcome = "failed"
             /\ gen'.content = NoContent ]_vars

\* a reschedule of u1 whose three attempts all reached the provider and which
\* returned the template
C11_Witness ==
  /\ gen.pc = "done"
  /\ gen.kind = "reschedule"
  /\ gen.userId = "u1"
  /\ gen.providerCalls = GetStrategyOptions("ai-service", EmptyOptions).maxAttempts
  /\ gen.outcome = "fallback"
  /\ gen.content = FallbackContent("reschedule")


(***************************************************************************)
(* C12 -- authentication and rate-limit failures are terminal              *)
(***************************************************************************)
\* the retry loop gave up on a message that shouldNotRetry recognises
AuthenticationFailure ==
  /\ EntersCatch
  /\ ~retry.result.success
  /\ ShouldNotRetry(retry.result.error)

\* the step in which checkLimit denies the call
RateLimitDenial ==
  /\ gen.pc = "idle"
  /\ lastCheck' # NoCheck
  /\ ~lastCheck'.allowed

\* C12 as stated: a call whose model call fails with an authentication error,
\* or which the rate limiter denies, ends in an error and never in a fallback
\* result; every other model failure ends in a fallback result.
C12_AuthAndRateLimitTerminal ==
  [][ gen' # gen =>
        /\ AuthenticationFailure => gen'.pc = "done" /\ gen'.outcome = "failed"
        /\ RateLimitDenial => gen'.pc = "done" /\ gen'.outcome = "rate-limited"
        /\ EntersCatch /\ ~AuthenticationFailure =>
             gen'.pc = "done" /\ gen'.outcome = "fallback" ]_vars


(***************************************************************************)
(* C13 -- a rate-limit denial stops the pipeline                           *)
(***************************************************************************)
\* C13: on a cache miss, if checkLimit(userId, kind) is not allowed, the call
\* fails with a rate-limit error and performs no model call, no cache write,
\* no recordUsage and no fallback generation.
C13_DenialStopsPipeline ==
  [][ RateLimitDenial /\ gen' # gen =>
        /\ CacheLookup(cache, gen'.cacheKey, now) = None
        /\ gen'.pc = "done"
        /\ gen'.outcome = "rate-limited"
        /\ gen'.content = NoContent
        /\ gen'.providerCalls = 0
        /\ gen'.recordUsageCalls = 0
        /\ retry' = retry
        /\ \A k \in DOMAIN cache : cache'[k] # NoEntry => cache'[k] = cache[k]
        /\ dailyUsage' = dailyUsage
        /\ monthlyUsage' = monthlyUsage ]_vars

\* a reschedule of u1 denied because the daily limit is used up
C13_Witness ==
  /\ gen.pc = "done"
  /\ gen.kind = "reschedule"
  /\ gen.userId = "u1"
  /\ gen.outcome = "rate-limited"
  /\ lastCheck # NoCheck
  /\ ~lastCheck.allowed
  /\ lastCheck.endpoint = "reschedule"
  /\ retry.pc = "idle"
  /\ gen.providerCalls = 0


(***************************************************************************)
(* C14 -- a cache hit bypasses the rate limiter                            *)
(***************************************************************************)
\* a generate* call starts while the map holds a non-expired entry for its key
StartsWarm ==
  /\ gen.pc = "idle"
  /\ gen' # gen
  /\ cache[gen'.cacheKey] # NoEntry
  /\ ~IsExpired(cache[gen'.cacheKey], now)

\* C14: when a non-expired cache entry exists for the key of the call, the
\* call returns the cached content without calling checkLimit, recordUsage or
\* the model, so it succeeds even for a user whose quota is exhausted and
\* leaves all usage counters unchanged.
C14_CacheHitBypassesLimiter ==
  [][ StartsWarm =>
        /\ gen'.pc = "done"
        /\ gen'.outcome = "cache"
        /\ gen'.content = cache[gen'.cacheKey].data
        /\ gen'.providerCalls = 0
        /\ gen'.recordUsageCalls = 0
        /\ retry' = retry
        /\ lastCheck' = lastCheck
        /\ userLimits' = userLimits
        /\ dailyUsage' = dailyUsage
        /\ monthlyUsage' = monthlyUsage ]_vars

\* u1, whose quota checkLimit would refuse, is served from the cache
C14_Witness ==
  /\ gen.pc = "done"
  /\ gen.outcome = "cache"
  /\ gen.userId = "u1"
  /\ gen.content # NoContent
  /\ lastCheck = NoCheck
  /\ ~CheckLimitStatus(userLimits, dailyUsage, monthlyUsage, "u1", gen.kind).allowed


(***************************************************************************)
(* C23 -- a response that is not JSON                                      *)
(***************************************************************************)
\* executeWithStrategy has returned a text that JSON.parse rejects
MalformedReturned ==
  /\ gen.pc = "model"
  /\ retry.pc = "done"
  /\ retry.result.success
  /\ ~IsJson(retry.result.data)

\* C23 as stated: the model is invoked exactly once for a request whose model
\* call returns text that is not parseable JSON.
C23_AsStated ==
  MalformedReturned => gen.providerCalls = 1

\* the step of a call that sets the cache or records usage
SetsCacheOrRecordsUsage ==
  /\ gen.pc = "model"
  /\ gen'.pc = "done"
  /\ \/ cache' # cache
     \/ dailyUsage' # dailyUsage
     \/ monthlyUsage' # monthlyUsage
     \/ gen'.recordUsageCalls # gen.recordUsageCalls

\* C23: the parse failure triggers no further attempt: the model was invoked
\* once per attempt of the retry loop up to the one that returned the text
\* (1 to 3 times) and is not invoked again, nothing is stored in the cache and
\* recordUsage is not called; the cache is set and usage recorded only after
\* a successful parse, and usage is never recorded without the cache set.
C23_MalformedNotRetried ==
  /\ [](MalformedReturned =>
          /\ gen.providerCalls = retry.invocations
          /\ gen.providerCalls \in
               1..GetStrategyOptions("ai-service", EmptyOptions).maxAttempts)
  /\ [][ MalformedReturned /\ gen' # gen =>
           /\ gen'.pc = "done"
           /\ gen'.outcome \in {"fallback", "failed"}
           /\ gen'.providerCalls = gen.providerCalls
           /\ gen'.recordUsageCalls = 0
           /\ cache' = cache
           /\ dailyUsage' = dailyUsage
           /\ monthlyUsage' = monthlyUsage ]_vars
  /\ [][ SetsCacheOrRecordsUsage =>
           /\ retry.result.success
           /\ IsJson(retry.result.data)
           /\ cache'[gen.cacheKey] # NoEntry
           /\ cache'[gen.cacheKey].data = Transform(gen.kind, retry.result.data) ]_vars

\* the first attempt got no content, the second got text that is not JSON
C23_Witness ==
  /\ MalformedReturned
  /\ gen.providerCalls = 2
  /\ gen.userId = "u1"
  /\ retry.thrown = << <<"No", "response", "from", "AI", "model">> >>



(***************************************************************************)
(* C39 -- a fallback leaves no trace                                       *)
(***************************************************************************)
\* a call with a userId has returned the template of its kind
FallbackReturned ==
  /\ gen.pc = "done"
  /\ gen.outcome = "fallback"

\* the step in which a call ends in its catch block
ReturnsFallback ==
  /\ gen.pc = "model"
  /\ gen'.pc = "done"
  /\ gen'.outcome = "fallback"

\* what the head of an identical call made now finds: the cache lookup under
\* the key of the same kind and input, and checkLimit's answer for the user
RepeatCached ==
  CacheLookup(cache, GenerateKey(gen.kind, KeyParams(gen.kind, gen.input)), now)
RepeatStatus ==
  CheckLimitStatus(userLimits, dailyUsage, monthlyUsage, gen.userId, gen.kind)

\* C39: when a generation call returns a fallback result, no cache entry has
\* been written and recordUsage has not been called, so an identical call
\* made immediately afterwards misses the cache again, gets the same
\* rate-limit decision (allowed) and invokes the model again.
C39_FallbackLeavesNoTrace ==
  /\ [][ ReturnsFallback =>
           /\ cache' = cache
           /\ dailyUsage' = dailyUsage
           /\ monthlyUsage' = monthlyUsage
           /\ gen'.recordUsageCalls = 0 ]_vars
  /\ [](FallbackReturned =>
          /\ gen.recordUsageCalls = 0
          /\ cache[gen.cacheKey] = NoEntry
          /\ RepeatCached = None
          /\ RepeatStatus = lastCheck
          /\ RepeatStatus.allowed)

\* u1, with one plan already counted, asked for a briefing; the provider
\* answered with text that is not JSON and the template was returned
C39_Witness ==
  /\ FallbackReturned
  /\ gen.kind = "briefing"
  /\ gen.userId = "u1"
  /\ gen.providerCalls = 1
  /\ dailyUsage["u1"]["plan"] = 1
  /\ monthlyUsage["u1"] = 1
  /\ lastCheck.currentUsage = 0

(***************************************************************************)
(* The generation service called for two users                             *)
(***************************************************************************)
NextShare ==
  \/ \E kind \in Kinds, userId \in Users :
       \E input \in GenerateInputs(kind) :
          GenerateBegin(kind, input, userId)
            /\ UNCHANGED <<applyVars, pureVars, timerVars, parallelVars, lifeVars, routeVars, raceVars>>
  \/ \E data \in ProviderContents :
       ProviderResolves(data)
         /\ UNCHANGED <<applyVars, pureVars, timerVars, parallelVars, lifeVars, routeVars, raceVars>>
  \/ \E message \in ProviderErrors :
       ProviderThrows(message)
         /\ UNCHANGED <<applyVars, pureVars, timerVars, parallelVars, lifeVars, routeVars, raceVars>>
  \/ BackoffElapses
       /\ UNCHANGED <<applyVars, pureVars, timerVars, parallelVars, lifeVars, routeVars, raceVars>>
  \/ GenerateFinish
       /\ UNCHANGED <<applyVars, pureVars, timerVars, parallelVars, lifeVars, routeVars, raceVars>>
  \/ GenerateReturn
       /\ UNCHANGED <<applyVars, pureVars, timerVars, parallelVars, lifeVars, routeVars, raceVars>>
  \/ GenerateTick
       /\ UNCHANGED <<applyVars, pureVars, timerVars, parallelVars, lifeVars, routeVars, raceVars>>

SpecShare == InitGen /\ [][NextShare]_vars

(***************************************************************************)
(* C31 -- no cross-user cache disclosure                                   *)
(***************************************************************************)
\* the call was answered from the cache entry that the last call answered by
\* the model stored
HitOnStoredEntry ==
  /\ gen.pc = "done"
  /\ gen.outcome = "cache"
  /\ lastModel # NoModelCall
  /\ lastModel.cacheKey = gen.cacheKey
  /\ gen.content = lastModel.content

\* C31 as stated: a generation request made for user B never returns content
\* generated and cached by a request made for another user A: a cache hit
\* happens only on an entry stored by a request of the same user.
C31_NoCrossUserDisclosure ==
  HitOnStoredEntry => gen.userId = lastModel.userId


(***************************************************************************)
(* Generation requests handled one after the other                         *)
(***************************************************************************)
NextRoute ==
  \/ \E kind \in Kinds, userId \in Users : RouteBegin(kind, userId) /\ UNCHANGED <<applyVars, pureVars, timerVars, parallelVars, lifeVars, raceVars>>
  \/ \E kind \in Kinds : \E input \in GenerateInputs(kind) :
        RouteGenerate(kind, input) /\ UNCHANGED <<applyVars, pureVars, timerVars, parallelVars, lifeVars, raceVars>>
  \/ \E data \in ProviderContents : ProviderResolves(data) /\ UNCHANGED <<applyVars, pureVars, timerVars, parallelVars, lifeVars, routeVars, raceVars>>
  \/ \E message \in ProviderErrors : ProviderThrows(message) /\ UNCHANGED <<applyVars, pureVars, timerVars, parallelVars, lifeVars, routeVars, raceVars>>
  \/ BackoffElapses /\ UNCHANGED <<applyVars, pureVars, timerVars, parallelVars, lifeVars, routeVars, raceVars>>
  \/ GenerateFinish /\ UNCHANGED <<applyVars, pureVars, timerVars, parallelVars, lifeVars, routeVars, raceVars>>
  \/ \E inserted \in BOOLEAN : RouteCreateSuggestion(inserted) /\ UNCHANGED <<applyVars, pureVars, timerVars, parallelVars, lifeVars, raceVars>>
  \/ RouteRespond /\ UNCHANGED <<applyVars, pureVars, timerVars, parallelVars, lifeVars, raceVars>>
  \/ GenerateTick /\ UNCHANGED <<applyVars, pureVars, timerVars, parallelVars, lifeVars, routeVars, raceVars>>
  \/ CacheCleanup /\ UNCHANGED <<limiterVars, retryVars, applyVars, pureVars, timerVars, parallelVars, lifeVars, genVars, routeVars, raceVars>>

SpecRoute == InitGen /\ [][NextRoute]_vars

(***************************************************************************)
(* C33 -- rate limiting on the request path                                *)
(***************************************************************************)
\* the generate* call of the handler's request has invoked the provider
RequestReachedProvider ==
  /\ route.pc = "generate"
  /\ gen.pc # "idle"
  /\ gen.providerCalls > 0

\* C33 as stated: every generation request handled by the API handlers that
\* reaches the model provider is preceded by a checkLimit for the
\* authenticated user that returned allowed, and followed on success by a
\* recordUsage for that user.
C33_RateLimitOnRequestPath ==
  RequestReachedProvider =>
    /\ gen.userId = route.userId
    /\ lastCheck # NoCheck
    /\ lastCheck.allowed
    /\ (gen.pc = "done" /\ gen.outcome = "model") =>
         /\ gen.recordUsageCalls = 1
         /\ dailyUsage[route.userId][route.kind] >= 1


(***************************************************************************)
(* C15 -- no duplicate Suggestion row on a warm repeat                     *)
(***************************************************************************)
\* the generate* call of a handler was answered from the cache
AnsweredFromCache ==
  /\ route.pc = "generate"
  /\ gen.pc = "done"
  /\ gen.outcome = "cache"

\* C15 as stated: for every kind, when a generation request is answered from a
\* still-warm cache entry, no new Suggestion record is persisted, so two
\* immediately repeated identical requests leave exactly one Suggestion row.
C15_NoRowOnWarmRepeat ==
  [][ AnsweredFromCache => createdSuggestions' = createdSuggestions ]_vars


(***************************************************************************)
(* Two concurrent generation calls of one user                            *)
(***************************************************************************)
NextRace ==
  \/ gen.pc = "idle" /\ parked.gen.pc = "idle" /\ SetUserLimits("u1", StrictDailyLimit)
       /\ UNCHANGED <<cacheVars, retryVars, applyVars, pureVars, timerVars, parallelVars, lifeVars, genVars, routeVars, raceVars>>
  \/ \E kind \in Kinds : \E input \in GenerateInputs(kind) :
        ConcurrentBegin(kind, input, "u1") /\ UNCHANGED <<applyVars, pureVars, timerVars, parallelVars, lifeVars, routeVars>>
  \/ \E data \in ProviderContents :
        ProviderResolves(data) /\ UNCHANGED <<applyVars, pureVars, timerVars, parallelVars, lifeVars, routeVars, raceVars>>
  \/ \E message \in ProviderErrors :
        ProviderThrows(message) /\ UNCHANGED <<applyVars, pureVars, timerVars, parallelVars, lifeVars, routeVars, raceVars>>
  \/ BackoffElapses /\ UNCHANGED <<applyVars, pureVars, timerVars, parallelVars, lifeVars, routeVars, raceVars>>
  \/ GenerateFinish /\ UNCHANGED <<applyVars, pureVars, timerVars, parallelVars, lifeVars, routeVars, raceVars>>
  \/ GenerateTick /\ UNCHANGED <<applyVars, pureVars, timerVars, parallelVars, lifeVars, routeVars, raceVars>>
  \/ Resume /\ UNCHANGED <<applyVars, pureVars, timerVars, parallelVars, lifeVars, routeVars>>

SpecRace == InitGen /\ [][NextRace]_vars

(***************************************************************************)
(* Two generate* calls whose inputs differ                                 *)
(***************************************************************************)
\* an array of objects with their titles: a template literal shows none of them
ObjsOf(titles) == [t |-> "objects", n |-> Len(titles), v |-> titles]

BriefingInput(titles) ==
  [ currentDate |-> Str(<<"1">>), todaysTasks |-> ObjsOf(titles),
    yesterdayProgress |-> Undefined_, habitStreaks |-> Obj,
    nearDeadlines |-> Undefined_, energyLevels |-> Str(<<"l", "o">>) ]

\* briefings for two different task lists, and plans whose commitments are
\* the two strings x and y or the one string "x,y"
DistinctInputs(kind) ==
  CASE kind = "briefing" ->
         { BriefingInput(<< <<"Write report">> >>), BriefingInput(<< <<"Call mom">> >>) }
    [] kind = "plan" ->
         { PlanInput(<< <<"x">>, <<"y">> >>), PlanInput(<< <<"x", ",", "y">> >>) }

NextDistinct ==
  \/ \E kind \in {"plan", "briefing"} : \E input \in DistinctInputs(kind) :
        ConcurrentBegin(kind, input, "")
          /\ UNCHANGED <<applyVars, pureVars, timerVars, parallelVars, lifeVars, routeVars>>
  \/ \E data \in ProviderContents :
        ProviderResolves(data)
          /\ UNCHANGED <<applyVars, pureVars, timerVars, parallelVars, lifeVars, routeVars, raceVars>>
  \/ \E message \in ProviderErrors :
        ProviderThrows(message)
          /\ UNCHANGED <<applyVars, pureVars, timerVars, parallelVars, lifeVars, routeVars, raceVars>>
  \/ BackoffElapses
       /\ UNCHANGED <<applyVars, pureVars, timerVars, parallelVars, lifeVars, routeVars, raceVars>>
  \/ GenerateFinish
       /\ UNCHANGED <<applyVars, pureVars, timerVars, parallelVars, lifeVars, routeVars, raceVars>>
  \/ GenerateTick
       /\ UNCHANGED <<applyVars, pureVars, timerVars, parallelVars, lifeVars, routeVars, raceVars>>
  \/ Resume /\ UNCHANGED <<applyVars, pureVars, timerVars, parallelVars, lifeVars, routeVars>>

\* the cache is empty: no entry under any key of these inputs
InitDistinct ==
  /\ now = 0
  /\ cache = [k \in UNION { { GenerateKey(kind, KeyParams(kind, input)) :
                                 input \in DistinctInputs(kind) } :
                             kind \in {"plan", "briefing"} } |-> NoEntry]
  /\ lastSet = [k \in CacheKeys |-> NoEntry]
  /\ lastGet = NoGet
  /\ InitLimiterVars /\ InitRetryVars /\ InitApplyVars /\ InitGenVars /\ InitRouteVars /\ InitRaceVars /\ InitPureVars /\ InitLifeVars /\ InitTimerVars /\ InitParallelVars

SpecDistinct == InitDistinct /\ [][NextDistinct]_vars

(***************************************************************************)
(* C36 -- distinct requests never share a cache entry                      *)
(***************************************************************************)
\* the two calls of the behaviour
BothBegun == gen.pc # "idle" /\ parked.gen.pc # "idle"

\* the running call returned the content the other call had cached
ServedFromOtherCall ==
  /\ gen.pc = "done" /\ gen.outcome = "cache"
  /\ parked.gen.pc = "done" /\ parked.gen.outcome = "model"
  /\ gen.cacheKey = parked.gen.cacheKey
  /\ gen.content = parked.gen.content

\* C36 as stated: two generation requests of a kind whose input parameters
\* differ in any value, values inside array or object parameters and values
\* containing separators included, have different cache keys, so a request
\* never receives content cached for different input.
C36_DistinctRequestsDistinctKeys ==
  /\ (BothBegun /\ gen.kind = parked.gen.kind /\ gen.input # parked.gen.input) =>
       gen.cacheKey # parked.gen.cacheKey
  /\ ServedFromOtherCall => gen.input = parked.gen.input


(***************************************************************************)
(* C18 -- the generation race                                              *)
(***************************************************************************)
\* both calls have returned content from the model, for the same user and
\* cache key, and one of them began while the other awaited the provider
RacedThroughModel ==
  /\ gen.pc = "done"
  /\ parked.gen.pc = "done"
  /\ parked.overlapped
  /\ gen.outcome = "model"
  /\ parked.gen.outcome = "model"
  /\ gen.userId = parked.gen.userId
  /\ gen.cacheKey = parked.gen.cacheKey

\* C18: two concurrent generation calls for the same user, kind and
\* parameters, started before either completes, can both miss the cache, both
\* pass checkLimit, both invoke the model and both call recordUsage: nothing
\* coalesces them, so whenever both return through the model the provider was
\* invoked by each and the quota was decremented twice.
C18_GenerationRace ==
  RacedThroughModel =>
    /\ gen.providerCalls >= 1
    /\ parked.gen.providerCalls >= 1
    /\ gen.recordUsageCalls = 1
    /\ parked.gen.recordUsageCalls = 1
    /\ dailyUsage[gen.userId][gen.kind] = 2
    /\ monthlyUsage[gen.userId] = 2

\* the interleaving: under a daily limit of one generation, two plan calls of
\* u1 begun at the same instant both returned the model's content
C18_Witness ==
  /\ RacedThroughModel
  /\ gen.kind = "plan"
  /\ gen.userId = "u1"
  /\ gen.startedAt = parked.gen.startedAt
  /\ userLimits["u1"].daily = 1
  /\ TotalDailyUsage(dailyUsage, "u1") = 2

(***************************************************************************)
(* C37 -- recorded usage and the ceilings                                  *)
(***************************************************************************)
\* C37: in every reachable state of the rate limiter driven by the generation
\* service (checkLimit on a cache miss, recordUsage after the model succeeded),
\* interleavings of concurrent calls of one user included, each user's
\* per-kind daily count is at most the kind's cap, the sum of the per-kind
\* daily counts is at most the daily limit and the monthly count is at most
\* the monthly limit.
C37_UsageWithinCeilings ==
  \A u \in Users :
    /\ \A kind \in Kinds : dailyUsage[u][kind] <= LimitsOf(userLimits, u)[kind]
    /\ TotalDailyUsage(dailyUsage, u) <= LimitsOf(userLimits, u).daily
    /\ monthlyUsage[u] <= LimitsOf(userLimits, u).monthly

(***************************************************************************)
(* C32 -- model calls bounded by the quota                                 *)
(***************************************************************************)
\* the calls of user u of the behaviour that have invoked the provider: no
\* daily rollover happens in a behaviour of SpecRace
ReachedProvider(u) ==
  {c \in {"running", "other"} :
     LET g == IF c = "running" THEN gen ELSE parked.gen
     IN g.pc # "idle" /\ g.userId = u /\ g.providerCalls > 0}

ReachedProviderOfKind(u, kind) ==
  {c \in ReachedProvider(u) : (IF c = "running" THEN gen ELSE parked.gen).kind = kind}

\* C32 as stated, for calls made one after the other: between two daily
\* rollovers the number of generation requests of a user that reach the model
\* provider is at most the user's daily limit, and per kind at most the
\* kind's cap, whatever the outcome of the model calls.
C32_ModelCallsBounded ==
  ~parked.overlapped =>
    \A u \in Users :
      /\ Cardinality(ReachedProvider(u)) <= LimitsOf(userLimits, u).daily
      /\ \A kind \in Kinds :
           Cardinality(ReachedProviderOfKind(u, kind)) <= LimitsOf(userLimits, u)[kind]



(***************************************************************************)
(* The transform of generatePlan applied to parsed responses               *)
(***************************************************************************)
NextTransform ==
  \/ \E doc \in PlanDocs, today \in 0..MaxDay :
        JsonParse(doc, today)
          /\ UNCHANGED <<cacheVars, limiterVars, retryVars, applyVars, genVars, routeVars,
                         raceVars, lifeVars, timerVars, parallelVars, fallbackRun, keyRun>>
  \/ TransformPlan
       /\ UNCHANGED <<cacheVars, limiterVars, retryVars, applyVars, genVars, routeVars,
                      raceVars, lifeVars, timerVars, parallelVars, fallbackRun, keyRun>>

SpecTransform == InitCache /\ [][NextTransform]_vars

(***************************************************************************)
(* C19 -- the goal list of a generated plan                                *)
(***************************************************************************)
\* C19 as stated: every plan content returned by a generation that succeeded
\* through the model (retry success and JSON parse success) has a non-empty
\* goal list; task lists may be empty.
C19_GoalListNonEmpty ==
  transform.pc = "returned" => Len(transform.content.goals) > 0

(***************************************************************************)
(* generatePlanFallback invoked twice on one text                          *)
(***************************************************************************)
NextFallback ==
  \/ \E userGoals \in Texts, today \in 0..MaxDay :
        InvokePlanFallback(userGoals, today)
          /\ UNCHANGED <<cacheVars, limiterVars, retryVars, applyVars, genVars, routeVars,
                         raceVars, lifeVars, timerVars, parallelVars, transform, keyRun>>
  \/ \E today \in 0..MaxDay :
        InvokePlanFallbackAgain(today)
          /\ UNCHANGED <<cacheVars, limiterVars, retryVars, applyVars, genVars, routeVars,
                         raceVars, lifeVars, timerVars, parallelVars, transform, keyRun>>

SpecFallback == InitCache /\ [][NextFallback]_vars

(***************************************************************************)
(* C20 -- fallback determinism                                             *)
(***************************************************************************)
RunText ==
  <<"R", "u", "n", " ", "5", "k">>
ReadBooksText ==
  <<"R", "e", "a", "d", " ", "b", "o", "o", "k", "s">>

\* what the claim compares: goal titles, task titles and priorities
Outline(result) ==
  [ success |-> result.success,
    goals |-> [ i \in 1..Len(result.data.goals) |->
                  [ title |-> result.data.goals[i].title,
                    tasks |-> [ j \in 1..Len(result.data.goals[i].tasks) |->
                                  [ title |-> result.data.goals[i].tasks[j].title,
                                    priority |-> result.data.goals[i].tasks[j].priority ] ] ] ] ]

\* success with exactly the goals "Run 5k" and "Read books", in that order,
\* each with exactly three tasks
IsRunReadPlan(result) ==
  /\ result.success = TRUE
  /\ Len(result.data.goals) = 2
  /\ result.data.goals[1].title = RunText
  /\ result.data.goals[2].title = ReadBooksText
  /\ \A i \in 1..2 : Len(result.data.goals[i].tasks) = 3

\* C20: generatePlanFallback applied to the two-line text "Run 5k" / "Read
\* books" returns, on every invocation, success with exactly the two goals
\* "Run 5k" and "Read books" in that order, each with exactly three tasks; and
\* two invocations with identical input on the same day return identical goal
\* titles, task titles and priorities.
C20_FallbackDeterminism ==
  /\ fallbackRun.pc \in {"once", "twice"} /\ fallbackRun.userGoals = RunReadText
       => IsRunReadPlan(fallbackRun.result)
  /\ fallbackRun.pc = "twice" /\ fallbackRun.userGoals = RunReadText
       => IsRunReadPlan(fallbackRun.resultAgain)
  /\ fallbackRun.pc = "twice" /\ fallbackRun.todayAgain = fallbackRun.today
       => Outline(fallbackRun.resultAgain) = Outline(fallbackRun.result)

\* the two-line text was given twice on one day
C20_Witness ==
  /\ fallbackRun.pc = "twice"
  /\ fallbackRun.userGoals = RunReadText
  /\ fallbackRun.todayAgain = fallbackRun.today
  /\ fallbackRun.resultAgain.data.goals[2].tasks[3].priority = "low"

(***************************************************************************)
(* generateKey invoked twice on the same pairs                             *)
(***************************************************************************)
NextKey ==
  \/ \E prefix \in KeyPrefixes, params \in ParamObjects :
        InvokeGenerateKey(prefix, params)
          /\ UNCHANGED <<cacheVars, limiterVars, retryVars, applyVars, genVars, routeVars,
                         raceVars, lifeVars, timerVars, parallelVars, transform, fallbackRun>>
  \/ \E params \in ParamObjects :
        InvokeGenerateKeyAgain(params)
          /\ UNCHANGED <<cacheVars, limiterVars, retryVars, applyVars, genVars, routeVars,
                         raceVars, lifeVars, timerVars, parallelVars, transform, fallbackRun>>

SpecKey == InitCache /\ [][NextKey]_vars

(***************************************************************************)
(* C21 -- cache key stability                                              *)
(***************************************************************************)
\* C21: for every prefix and every parameter map, generateKey returns the
\* same key for any insertion order of the same name/value pairs.
C21_KeyStability ==
  keyRun.pc = "twice" => keyRun.keyAgain = keyRun.key

\* generateKey(p, {a:1, b:2}) and generateKey(p, {b:2, a:1})
C21_Witness ==
  /\ keyRun.pc = "twice"
  /\ keyRun.prefix = "p"
  /\ keyRun.params = << <<"a", Str(<<"1">>)>>, <<"b", Str(<<"2">>)>> >>
  /\ keyRun.paramsAgain = << <<"b", Str(<<"2">>)>>, <<"a", Str(<<"1">>)>> >>
  /\ keyRun.keyAgain = <<"p", ":", "a", ":", "1", "|", "b", ":", "2">>

(***************************************************************************)
(* Two apply / batch-apply handlers in flight at once; no store operation  *)
(* fails and no request is a dry run                                       *)
(***************************************************************************)
\* the requests of u1: the plan s1 or the briefing s2 is applied alone, or s2
\* in a batch after the unknown id s9
ConcurrentRequest(rq) ==
  /\ rq.kind # "preview"
  /\ rq.userId = "u1"
  /\ rq.options = NoOptions
  /\ rq.ids \in {<<"s1">>, <<"s2">>, <<"s9", "s2">>}

NextConcurrentApply ==
  \/ \E h \in Handlers :
       ReceiveRequest(h) /\ ConcurrentRequest(applyReq'[h]) /\ UNCHANGED notApplyVars
  \/ \E h \in Handlers : GetSuggestionById(h) /\ UNCHANGED notApplyVars
  \/ \E h \in Handlers :
       ApplicatorCall(h) /\ applyReq'[h].call.fail = {} /\ UNCHANGED notApplyVars
  \/ \E h \in Handlers : MarkAsApplied(h) /\ UNCHANGED notApplyVars
  \/ \E h \in Handlers : Respond(h) /\ UNCHANGED notApplyVars

SpecConcurrentApply == InitApply /\ [][NextConcurrentApply]_vars

(***************************************************************************)
(* C34 -- content applied at most once                                     *)
(***************************************************************************)
\* the handlers in flight whose applicator call wrote to the store for sid
WritersOf(sid) ==
  {h \in Handlers : /\ applyReq[h].call # NoCall
                    /\ applyReq[h].call.sid = sid
                    /\ ~applyReq[h].call.options.dryRun
                    /\ applyReq[h].call.after.writes > applyReq[h].call.before.writes}

\* C34 as stated: for any interleaving of concurrent apply and batch-apply
\* requests that are no dry runs for the same unapplied suggestion, the
\* applicator's writes for that suggestion are executed by at most one of
\* the requests.
C34_AppliedAtMostOnce ==
  \A sid \in DOMAIN InitialSuggestions : Cardinality(WritersOf(sid)) <= 1

(***************************************************************************)
(* Apply and batch-apply requests with the suggestion-management requests  *)
(* between them; no store operation fails                                  *)
(***************************************************************************)
\* the requests: the briefing s2 of u1 is applied with or without a selection,
\* alone or in a batch after the unknown id s9; s2, its copies and s9 are
\* archived, restored and duplicated by either user
LifecycleIds == {"s2", "s9"} \cup CopyIds
LifecycleOptions == { o \in OptionArgs : ~o.given \/ (o.hasSelected /\ ~o.applyAll) }
LifecycleRequest(rq) ==
  /\ rq.kind # "preview"
  /\ rq.userId = "u1"
  /\ rq.options \in LifecycleOptions
  /\ rq.ids \in {<<"s2">>, <<"s9", "s2">>}

NextLifecycle ==
  \/ ReceiveRequest("h1") /\ LifecycleRequest(applyReq'["h1"]) /\ UNCHANGED notApplyVars
  \/ GetSuggestionById("h1") /\ UNCHANGED notApplyVars
  \/ ApplicatorCall("h1") /\ applyReq'["h1"].call.fail = {} /\ UNCHANGED notApplyVars
  \/ MarkAsApplied("h1") /\ UNCHANGED notApplyVars
  \/ Respond("h1") /\ UNCHANGED notApplyVars
  \/ \E userId \in Users, suggestionId \in LifecycleIds :
        ArchiveSuggestionRequest(userId, suggestionId)
          /\ UNCHANGED <<cacheVars, limiterVars, retryVars, genVars, routeVars, raceVars,
                         pureVars, timerVars, parallelVars>>
  \/ \E userId \in Users, suggestionId \in LifecycleIds :
        RestoreSuggestionRequest(userId, suggestionId)
          /\ UNCHANGED <<cacheVars, limiterVars, retryVars, genVars, routeVars, raceVars,
                         pureVars, timerVars, parallelVars>>
  \/ \E userId \in Users, suggestionId \in LifecycleIds :
        DuplicateSuggestionRequest(userId, suggestionId)
          /\ UNCHANGED <<cacheVars, limiterVars, retryVars, genVars, routeVars, raceVars,
                         pureVars, timerVars, parallelVars>>
  \/ \E userId \in Users, daysOld \in DaysOldArgs :
        CleanupSuggestionsRequest(userId, daysOld)
          /\ UNCHANGED <<cacheVars, limiterVars, retryVars, genVars, routeVars, raceVars,
                         pureVars, timerVars, parallelVars>>
  \/ DayPasses
       /\ UNCHANGED <<cacheVars, limiterVars, retryVars, genVars, routeVars, raceVars,
                      pureVars, timerVars, parallelVars>>

SpecLifecycle == InitApply /\ [][NextLifecycle]_vars

(***************************************************************************)
(* C40 -- the apply response and the store                                 *)
(***************************************************************************)
\* the applySuggestion handlers that are returning a response object
ApplyAnswered ==
  { h \in Handlers : /\ applyReq[h].pc = "done"
                     /\ applyReq[h].kind = "apply"
                     /\ applyReq[h].response.status = "ok" }

\* C40: in every response of the applySuggestion handler, the isApplied value
\* of the returned suggestion equals the applied flag persisted for that
\* suggestion when the handler returns; it is false when the engine's result
\* had success = false.
C40_ResponseAgreesWithStore ==
  \A h \in ApplyAnswered :
    applyReq[h].response.isApplied = suggestions[applyReq[h].ids[1]].isApplied

(***************************************************************************)
(* Requests of either user on the suggestions of both                      *)
(***************************************************************************)
\* s1 belongs to u1, s4 to u2, "s9" names no row
OwnershipIds == {"s1", "s4", "s9"}

OwnershipRequest(rq) ==
  /\ rq.options = NoOptions
  /\ rq.ids \in { <<id>> : id \in OwnershipIds } \cup { <<"s3", "s4">> }

NextOwnership ==
  \/ ReceiveRequest("h1") /\ OwnershipRequest(applyReq'["h1"]) /\ UNCHANGED notApplyVars
  \/ GetSuggestionById("h1") /\ UNCHANGED notApplyVars
  \/ ApplicatorCall("h1") /\ applyReq'["h1"].call.fail = {} /\ UNCHANGED notApplyVars
  \/ MarkAsApplied("h1") /\ UNCHANGED notApplyVars
  \/ Respond("h1") /\ UNCHANGED notApplyVars
  \/ \E userId \in Users, suggestionId \in OwnershipIds :
        ArchiveSuggestionRequest(userId, suggestionId)
          /\ UNCHANGED <<cacheVars, limiterVars, retryVars, genVars, routeVars, raceVars,
                         pureVars, timerVars, parallelVars>>
  \/ \E userId \in Users, suggestionId \in OwnershipIds :
        RestoreSuggestionRequest(userId, suggestionId)
          /\ UNCHANGED <<cacheVars, limiterVars, retryVars, genVars, routeVars, raceVars,
                         pureVars, timerVars, parallelVars>>
  \/ \E userId \in Users, suggestionId \in OwnershipIds :
        DuplicateSuggestionRequest(userId, suggestionId)
          /\ UNCHANGED <<cacheVars, limiterVars, retryVars, genVars, routeVars, raceVars,
                         pureVars, timerVars, parallelVars>>

SpecOwnership == InitApply /\ [][NextOwnership]_vars

(***************************************************************************)
(* C38 -- ownership isolation                                              *)
(***************************************************************************)
\* the suggestion row belongs to somebody else than userId
Foreign(userId, suggestionId) ==
  /\ suggestionId \in DOMAIN suggestions
  /\ suggestions[suggestionId].userId # userId

\* an archive, restore or duplicate request of a user for a foreign row
ForeignLifecycleRequest ==
  \E userId \in Users, suggestionId \in OwnershipIds :
    /\ Foreign(userId, suggestionId)
    /\ \/ ArchiveSuggestionRequest(userId, suggestionId)
       \/ RestoreSuggestionRequest(userId, suggestionId)
       \/ DuplicateSuggestionRequest(userId, suggestionId)

\* the apply, batch-apply or preview request in frame h is at a foreign row
AtForeignRow(h) ==
  /\ applyReq[h].pc # "idle"
  /\ Foreign(applyReq[h].userId, applyReq[h].ids[applyReq[h].idx])

\* what a response of frame h discloses: the rows returned as `suggestion`
\* and the rows whose ApplyResult is returned
Disclosed(rq) ==
  IF rq.pc # "done" \/ rq.response.status # "ok" THEN {}
  ELSE IF rq.kind = "batch"
  THEN { rq.results[i].suggestionId :
           i \in { j \in 1..Len(rq.results) : "result" \in DOMAIN rq.results[j] } }
  ELSE {rq.suggestion.id}

\* C38: no applySuggestion, batchApplySuggestions, previewSuggestion,
\* archiveSuggestion, restoreSuggestion or duplicateSuggestion request
\* authenticated as user U writes anything (domain records, applied flag,
\* archived flag, duplicate row) for a suggestion whose userId differs from U,
\* or returns that suggestion's content.
C38_OwnershipIsolation ==
  [][ /\ ForeignLifecycleRequest =>
           /\ UNCHANGED <<store, suggestions>>
           /\ lifecycle'.status = "error"
      /\ \A h \in Handlers :
           /\ AtForeignRow(h) /\ applyReq'[h] # applyReq[h] =>
                /\ UNCHANGED <<store, suggestions>>
                /\ "result" \notin DOMAIN applyReq'[h].response
                /\ Len(applyReq'[h].results) > Len(applyReq[h].results) =>
                     "result" \notin DOMAIN applyReq'[h].results[Len(applyReq'[h].results)]
           /\ \A id \in Disclosed(applyReq'[h]) :
                suggestions[id].userId = applyReq'[h].userId
    ]_vars

\* u2 asked to apply, and to archive, u1's plan s1: both were refused and
\* the row and the domain tables are as they were
C38_Witness ==
  /\ applyReq["h1"].pc = "done"
  /\ applyReq["h1"].userId = "u2"
  /\ applyReq["h1"].kind = "apply"
  /\ applyReq["h1"].ids = <<"s1">>
  /\ applyReq["h1"].response = [status |-> "error", message |-> "Access denied"]
  /\ lifecycle = LifecycleError("archive", "Access denied")
  /\ suggestions = InitialSuggestions
  /\ store = InitialStore

(***************************************************************************)
(* C22 -- an applied suggestion stays applied                              *)
(***************************************************************************)
\* every row that is applied is still there after the step, applied, with the
\* same owner, type, content and creation date
AppliedRowsKept ==
  \A id \in DOMAIN suggestions :
    suggestions[id].isApplied =>
      /\ id \in DOMAIN suggestions'
      /\ suggestions'[id].isApplied
      /\ suggestions'[id].content = suggestions[id].content
      /\ suggestions'[id].type = suggestions[id].type
      /\ suggestions'[id].userId = suggestions[id].userId
      /\ suggestions'[id].createdAt = suggestions[id].createdAt

\* the handler in frame h1 is about to read a row of its user that is applied,
\* for an apply that is not a dry run
ReadsAppliedRow ==
  LET rq == applyReq["h1"]
  IN /\ rq.pc = "get"
     /\ rq.kind \in {"apply", "batch"}
     /\ ~DryRunOf(rq.options)
     /\ rq.ids[rq.idx] \in DOMAIN suggestions
     /\ suggestions[rq.ids[rq.idx]].userId = rq.userId
     /\ suggestions[rq.ids[rq.idx]].isApplied

\* the answer to it: "already applied", and the applicator is not called
AlreadyAppliedAnswer ==
  LET rq == applyReq["h1"]
      after == applyReq'["h1"]
  IN /\ store' = store
     /\ after.pc # "engine"
     /\ after.call = NoCall
     /\ IF rq.kind = "apply"
        THEN /\ after.pc = "done"
             /\ after.response.message = "Suggestion already applied"
             /\ after.response.result = NoCall
        ELSE /\ Len(after.results) = Len(rq.results) + 1
             /\ after.results[Len(after.results)] =
                  [ suggestionId |-> rq.ids[rq.idx], success |-> FALSE,
                    error |-> "Suggestion already applied" ]

\* C22: once a suggestion's applied flag is true it stays true: no apply,
\* batch apply, archive, restore, duplicate or cleanup request sets it back
\* to false, changes its content or deletes it; a later apply of it that is
\* not a dry run is answered "already applied" with no domain write; only
\* the archived flag and updatedAt may still change.
C22_AppliedStaysApplied ==
  [][ /\ AppliedRowsKept
      /\ ReadsAppliedRow /\ applyReq' # applyReq => AlreadyAppliedAnswer ]_vars

\* s2 was applied and then archived, its copy c1 is not applied, a cleanup
\* deleted the old row s1, and a second apply of s2 was answered
C22_Witness ==
  /\ "s2" \in DOMAIN suggestions
  /\ suggestions["s2"].isApplied
  /\ suggestions["s2"].isArchived
  /\ suggestions["s2"].updatedAt > suggestions["s2"].createdAt
  /\ "c1" \in DOMAIN suggestions
  /\ ~suggestions["c1"].isApplied
  /\ "s1" \notin DOMAIN suggestions
  /\ applyReq["h1"].pc = "done"
  /\ applyReq["h1"].kind = "apply"
  /\ applyReq["h1"].ids = <<"s2">>
  /\ applyReq["h1"].response.message = "Suggestion already applied"

====
